---- MODULE Spec2Model ----
(***************************************************************************)
(* flycatcher: the bulk validation engine (generators/polars.py) and the   *)
(* validator DSL with its two backends (validators/).                      *)
(*                                                                         *)
(* A schema is an ordered list of field descriptors plus a list of         *)
(* cross-field validators.  PolarsValidator.__init__ compiles it into a    *)
(* list of constraint entries; validate() runs the pipeline                *)
(*   CheckRequired -> AddDefaults -> CoerceTypes -> HandleNulls ->         *)
(*   ApplyConstraints -> Done                                              *)
(* over a data frame.  A data frame is a sequence of column names, a dtype *)
(* per column and a sequence of rows; every row carries the position it    *)
(* had in the input frame (id) so that "which input rows were kept" can    *)
(* be stated.                                                              *)
(***************************************************************************)
EXTENDS Integers, Sequences, FiniteSets, TLC

\* Largest number of rows of an input frame.
MaxRows == 2

(***************************************************************************)
(* Values.  Python None and a Polars null are the same value Null.         *)
(***************************************************************************)
Null == [t |-> "null", v |-> 0]
I(n) == [t |-> "int", v |-> n]
B(b) == [t |-> "bool", v |-> IF b THEN 1 ELSE 0]
\* a Utf8 cell holding the decimal text of n, and one holding unparseable text
S(n) == [t |-> "str", v |-> n]
Bad == [t |-> "badstr", v |-> 0]
\* fields._MISSING: the "no default" sentinel, distinct from a default of None
MISSING == [t |-> "missing", v |-> 0]

True3 == B(TRUE)
False3 == B(FALSE)

IsNull(x) == x.t = "null"

(***************************************************************************)
(* Vectorized (Polars) semantics of the predicates used as constraints.    *)
(* Comparisons propagate null; & and | and ~ are Kleene.                   *)
(***************************************************************************)
CmpOps == {">", ">=", "<", "<=", "==", "!="}

CmpInt(op, a, b) ==
    CASE op = ">" -> a > b
      [] op = ">=" -> a >= b
      [] op = "<" -> a < b
      [] op = "<=" -> a <= b
      [] op = "==" -> a = b
      [] op = "!=" -> a # b

\* ~expr on a Boolean column (Kleene: ~null = null)
PolarsNot(x) == IF IsNull(x) THEN Null ELSE B(x.v = 0)

PolarsAnd(a, b) ==
    IF a = False3 \/ b = False3 THEN False3
    ELSE IF IsNull(a) \/ IsNull(b) THEN Null
    ELSE True3

PolarsOr(a, b) ==
    IF a = True3 \/ b = True3 THEN True3
    ELSE IF IsNull(a) \/ IsNull(b) THEN Null
    ELSE False3

PolarsCmp(op, a, b) ==
    IF IsNull(a) \/ IsNull(b) THEN Null ELSE B(CmpInt(op, a.v, b.v))

(***************************************************************************)
(* The validator DSL.  A node is a field reference, a literal, a BinaryOp, *)
(* a UnaryOp or a StringOp; every node compiles to a Polars expression     *)
(* (to_polars) and evaluates on one record in Python (to_python).          *)
(* Floats are kept in quarters (v = 4 * value), which is exact for the     *)
(* quotients and square roots of the operand values used here.             *)
(***************************************************************************)
F4(q) == [t |-> "float", v |-> q]
NaN == [t |-> "nan", v |-> 0]
Inf(sign) == [t |-> "inf", v |-> sign]
T(chars) == [t |-> "text", v |-> 0, s |-> chars]
\* the evaluation raised instead of yielding a value
Raised == [t |-> "raised", v |-> 0]
\* a datetime.date and a datetime.datetime, by their day number
D(n) == [t |-> "date", v |-> n]
DT(n) == [t |-> "datetime", v |-> n]

Col(name) == [k |-> "col", name |-> name]
Lit(val) == [k |-> "lit", val |-> val]
Bin(op, l, r) == [k |-> "bin", op |-> op, l |-> l, r |-> r]
Un(op, operand, arg) == [k |-> "un", op |-> op, x |-> operand, arg |-> arg]
StrOp(op, operand, arg) == [k |-> "strop", op |-> op, x |-> operand, arg |-> arg]
\* MembershipOp(op, operand, arg, nulls_equal=..., closed=...): arg is the
\* list of an is_in, or the pair (lower_bound, upper_bound) of an is_between
MembershipOp(op, operand, arg, nulls_equal, closed) ==
    [k |-> "member", op |-> op, x |-> operand, arg |-> arg,
     nulls_equal |-> nulls_equal, closed |-> closed]

\* the argument of is_in: a list, or some value that is no collection
List(items) == [k |-> "list", items |-> items]
NotACollection == [k |-> "val", val |-> I(1)]

\* DateTimeOp(op, operand): a component of a date or datetime
DateTimeOp(op, operand) == [k |-> "dt", op |-> op, x |-> operand]
TimeComponents == {"hour", "minute", "second"}

\* what a bound of is_between can be besides an expression: None, a str
\* (the name of a field) or any other Python value
BoundNone == [k |-> "none"]
BoundStr(name) == [k |-> "str", name |-> name]
BoundVal(val) == [k |-> "val", val |-> val]

ArithOps == {"+", "-", "*", "/"}
LogicOps == {"&", "|"}
UnaryOps == {"abs", "~", "is_null", "is_not_null", "round", "floor", "ceil",
             "sqrt", "pow"}
StringOps == {"contains", "starts_with", "ends_with", "len_chars", "to_uppercase"}

Abs(n) == IF n < 0 THEN -n ELSE n

\* the exact square root of a perfect square, in quarters
SqrtF(n) == F4(4 * (CHOOSE r \in 0..n : r * r = n))

\* expr % n on an Int64 column, as the multiple_of entry of a field uses it:
\* null in, null out, and a zero modulus gives null
PolarsMod(a, b) ==
    IF IsNull(a) \/ IsNull(b) \/ b.v = 0 THEN Null ELSE I(a.v % Abs(b.v))

\* BinaryOp.POLARS_OPS on Int64 / Boolean columns: null in, null out, except
\* that & and | are Kleene; / is true division (x / 0 is inf or NaN)
BinaryOp_POLARS_OPS(op, a, b) ==
    CASE op \in CmpOps -> PolarsCmp(op, a, b)
      [] op = "&" -> PolarsAnd(a, b)
      [] op = "|" -> PolarsOr(a, b)
      [] op = "%" -> PolarsMod(a, b)
      [] OTHER ->
           IF IsNull(a) \/ IsNull(b) THEN Null
           ELSE CASE op = "+" -> I(a.v + b.v)
                  [] op = "-" -> I(a.v - b.v)
                  [] op = "*" -> I(a.v * b.v)
                  [] op = "/" ->
                       IF b.v # 0 THEN F4((4 * a.v) \div b.v)
                       ELSE IF a.v = 0 THEN NaN
                       ELSE Inf(IF a.v > 0 THEN 1 ELSE -1)

\* Python truth value of an operand
Truthy(x) ==
    CASE x.t = "null" -> FALSE
      [] x.t = "text" -> x.s # <<>>
      [] x.t \in {"nan", "inf"} -> TRUE
      [] OTHER -> x.v # 0

\* BinaryOp.PYTHON_OPS: the Python operators on ints, bools and None.  An
\* ordering comparison or an arithmetic operator with None raises TypeError,
\* == and != compare None like any value, / by zero raises, and & and | are
\* Python's "and" and "or".
BinaryOp_PYTHON_OPS(op, a, b) ==
    CASE op \in {"==", "!="} -> B(IF op = "==" THEN a = b ELSE a # b)
      [] op = "&" -> IF Truthy(a) THEN b ELSE a
      [] op = "|" -> IF Truthy(a) THEN a ELSE b
      [] OTHER ->
           IF IsNull(a) \/ IsNull(b) THEN Raised
           ELSE CASE op \in CmpOps -> B(CmpInt(op, a.v, b.v))
                  [] op = "+" -> I(a.v + b.v)
                  [] op = "-" -> I(a.v - b.v)
                  [] op = "*" -> I(a.v * b.v)
                  [] op = "/" -> IF b.v = 0 THEN Raised
                                 ELSE F4((4 * a.v) \div b.v)

\* UnaryOp.POLARS_OPS (round with decimals 0, pow with an integer exponent)
UnaryOp_POLARS_OPS(op, x, arg) ==
    CASE op = "is_null" -> B(IsNull(x))
      [] op = "is_not_null" -> B(~IsNull(x))
      [] OTHER ->
           IF IsNull(x) THEN Null
           ELSE CASE op = "abs" -> I(Abs(x.v))
                  [] op = "~" -> PolarsNot(x)
                  [] op \in {"round", "floor", "ceil"} -> x
                  [] op = "sqrt" -> IF x.v < 0 THEN NaN ELSE SqrtF(x.v)
                  [] op = "pow" -> IF arg = 0 THEN I(1) ELSE I(x.v * x.v)

\* UnaryOp.PYTHON_OPS, with _python_round and _python_sqrt
UnaryOp_PYTHON_OPS(op, x, arg) ==
    CASE op = "abs" -> IF IsNull(x) THEN Raised ELSE I(Abs(x.v))
      [] op = "~" -> B(~Truthy(x))
      [] op = "is_null" -> B(IsNull(x))
      [] op = "is_not_null" -> B(~IsNull(x))
      [] op \in {"round", "floor", "ceil"} -> x
      [] op = "sqrt" -> IF IsNull(x) THEN Null
                        ELSE IF x.v < 0 THEN NaN ELSE SqrtF(x.v)
      [] op = "pow" -> IF IsNull(x) THEN Null
                       ELSE IF arg = 0 THEN I(1) ELSE I(x.v * x.v)

Upper(c) == CASE c = "a" -> "A" [] c = "b" -> "B" [] OTHER -> c

Contains(s, p) ==
    \E i \in 1..(Len(s) + 1) : i + Len(p) - 1 <= Len(s)
                                /\ SubSeq(s, i, i + Len(p) - 1) = p
StartsWith(s, p) == Len(p) <= Len(s) /\ SubSeq(s, 1, Len(p)) = p
EndsWith(s, p) == Len(p) <= Len(s) /\ SubSeq(s, Len(s) - Len(p) + 1, Len(s)) = p

\* the operation on a string that is there, the same in both backends
StringResult(op, s, p) ==
    CASE op = "contains" -> B(Contains(s, p))
      [] op = "starts_with" -> B(StartsWith(s, p))
      [] op = "ends_with" -> B(EndsWith(s, p))
      [] op = "len_chars" -> I(Len(s))
      [] op = "to_uppercase" -> T([i \in 1..Len(s) |-> Upper(s[i])])

\* StringOp.POLARS_OPS: the .str namespace maps a null to null
StringOp_POLARS_OPS(op, x, arg) ==
    IF IsNull(x) THEN Null ELSE StringResult(op, x.s, arg)

\* StringOp.PYTHON_OPS: on None the boolean operations give False, the
\* counting ones 0 and the string-valued ones None
StringOp_PYTHON_OPS(op, x, arg) ==
    IF ~IsNull(x) THEN StringResult(op, x.s, arg)
    ELSE CASE op \in {"contains", "starts_with", "ends_with"} -> False3
           [] op = "len_chars" -> I(0)
           [] OTHER -> Null

VALID_CLOSED == {"both", "left", "right", "none"}

\* list membership: "value in container", and Polars' is_in on a list
InList(container, value) == \E i \in 1..Len(container) : container[i] = value

\* expr.is_in(other, nulls_equal=...): a null operand gives null, or with
\* nulls_equal whether the list holds a null
PolarsIsIn(x, other, nulls_equal) ==
    IF IsNull(x) THEN (IF nulls_equal THEN B(InList(other, Null)) ELSE Null)
    ELSE B(InList(other, x))

\* expr.is_between(lower, upper, closed): the conjunction of the two
\* comparisons
PolarsIsBetween(x, lower, upper, closed) ==
    PolarsAnd(PolarsCmp(IF closed \in {"both", "left"} THEN ">=" ELSE ">", x, lower),
              PolarsCmp(IF closed \in {"both", "right"} THEN "<=" ELSE "<", x, upper))

\* MembershipOp._prepare_other_polars raises TypeError for an argument that
\* is no list, tuple, set, Series or expression
IsInArgumentRejected(other) == other.k # "list"

\* expr.dt.<component>() on a Datetime or Date expression: the time
\* components are not defined for the Date dtype; a component is modelled
\* by the day number (year, month, day) or by 0 (hour, minute, second)
PolarsComponent(op, x) ==
    IF x.t = "date" /\ op \in TimeComponents THEN Raised
    ELSE IF op \in TimeComponents THEN I(0) ELSE I(x.v)

RECURSIVE to_polars(_, _)
\* MembershipOp._prepare_bound_polars, evaluated on the row rec
_prepare_bound_polars(bound, rec) ==
    CASE bound.k = "none" -> Null
      [] bound.k = "str" -> IF bound.name \in DOMAIN rec THEN rec[bound.name]
                            ELSE Raised
      [] bound.k = "val" -> bound.val
      [] OTHER -> to_polars(bound, rec)

\* MembershipOp.to_polars, evaluated on the row rec
MembershipOp_to_polars(e, rec) ==
    LET expr == to_polars(e.x, rec)
    IN IF e.op = "is_in"
       THEN IF expr = Raised \/ IsInArgumentRejected(e.arg) THEN Raised
            ELSE PolarsIsIn(expr, e.arg.items, e.nulls_equal)
       ELSE IF e.closed \notin VALID_CLOSED THEN Raised
       ELSE LET lower == _prepare_bound_polars(e.arg[1], rec)
                upper == _prepare_bound_polars(e.arg[2], rec)
            IN IF expr = Raised \/ lower = Raised \/ upper = Raised THEN Raised
               ELSE PolarsIsBetween(expr, lower, upper, e.closed)

\* the value of node.to_polars() on the one-row frame whose row is rec;
\* Raised when Polars cannot resolve a column
to_polars(e, rec) ==
    CASE e.k = "col" -> IF e.name \in DOMAIN rec THEN rec[e.name] ELSE Raised
      [] e.k = "lit" -> e.val
      [] e.k = "bin" ->
           LET a == to_polars(e.l, rec)
               b == to_polars(e.r, rec)
           IN IF a = Raised \/ b = Raised THEN Raised
              ELSE BinaryOp_POLARS_OPS(e.op, a, b)
      [] e.k = "un" ->
           LET x == to_polars(e.x, rec)
           IN IF x = Raised THEN Raised ELSE UnaryOp_POLARS_OPS(e.op, x, e.arg)
      [] e.k = "strop" ->
           LET x == to_polars(e.x, rec)
           IN IF x = Raised THEN Raised ELSE StringOp_POLARS_OPS(e.op, x, e.arg)
      [] e.k = "member" -> MembershipOp_to_polars(e, rec)
      [] e.k = "dt" ->
           LET x == to_polars(e.x, rec)
           IN IF x = Raised THEN Raised ELSE PolarsComponent(e.op, x)

\* MembershipOp._contains: "value in container", False when that raises
_contains(container, value) ==
    IF container.k = "list" THEN B(InList(container.items, value)) ELSE False3

\* DateTimeOp._extract_component
_extract_component(value, attr) ==
    IF IsNull(value) THEN Null
    ELSE IF value.t \notin {"date", "datetime"} THEN Raised
    ELSE IF attr \in TimeComponents /\ value.t = "date" THEN Raised
    ELSE IF attr \in TimeComponents THEN I(0) ELSE I(value.v)

\* faulty variant: the right operand is evaluated only when the left one
\* does not decide
BinaryOp_to_python_ShortCircuit(op, left_val, right_val) ==
    IF left_val = Raised THEN Raised
    ELSE IF op = "&" /\ ~Truthy(left_val) THEN left_val
    ELSE IF op = "|" /\ Truthy(left_val) THEN left_val
    ELSE IF right_val = Raised THEN Raised
    ELSE BinaryOp_PYTHON_OPS(op, left_val, right_val)

\* BinaryOp.to_python once both operands have been evaluated: an error of
\* either evaluation has propagated, else the operator is applied
BinaryOp_to_python(op, left_val, right_val) ==
    IF left_val = Raised \/ right_val = Raised THEN Raised
    ELSE BinaryOp_PYTHON_OPS(op, left_val, right_val)

\* faulty variant: a null operand is never looked up in the list
IsInPython_NullIsNull(value, other, nulls_equal) ==
    IF IsNull(value) THEN Null ELSE _contains(other, value)

\* MembershipOp.to_python, is_in
IsInPython(value, other, nulls_equal) ==
    IF IsNull(value)
    THEN (IF nulls_equal THEN _contains(other, Null) ELSE Null)
    ELSE _contains(other, value)

\* MembershipOp._evaluate_between
_evaluate_between(closed, value, lower, upper) ==
    CASE closed = "both" -> B(value.v >= lower.v /\ value.v <= upper.v)
      [] closed = "left" -> B(value.v >= lower.v /\ value.v < upper.v)
      [] closed = "right" -> B(value.v > lower.v /\ value.v <= upper.v)
      [] OTHER -> B(value.v > lower.v /\ value.v < upper.v)

RECURSIVE to_python(_, _)
\* MembershipOp._prepare_bound_python
_prepare_bound_python(bound, values) ==
    CASE bound.k = "none" -> Null
      [] bound.k = "str" -> IF bound.name \in DOMAIN values THEN values[bound.name]
                            ELSE Raised
      [] bound.k = "val" -> bound.val
      [] OTHER -> to_python(bound, values)

\* MembershipOp.to_python
MembershipOp_to_python(e, values) ==
    LET value == to_python(e.x, values)
    IN IF value = Raised THEN Raised
       ELSE IF e.op = "is_in" THEN IsInPython(value, e.arg, e.nulls_equal)
       ELSE IF e.closed \notin VALID_CLOSED THEN Raised
       ELSE IF IsNull(value) THEN Null
       ELSE LET lower == _prepare_bound_python(e.arg[1], values)
                upper == _prepare_bound_python(e.arg[2], values)
            IN IF lower = Raised \/ upper = Raised THEN Raised
               ELSE IF IsNull(lower) \/ IsNull(upper) THEN Null
               ELSE _evaluate_between(e.closed, value, lower, upper)

\* node.to_python(values): both operands are evaluated before the operator
\* is applied; FieldRef raises AttributeError for a name values lacks
to_python(e, values) ==
    CASE e.k = "col" -> IF e.name \in DOMAIN values THEN values[e.name] ELSE Raised
      [] e.k = "lit" -> e.val
      [] e.k = "bin" ->
           LET left_val == to_python(e.l, values)
               right_val == to_python(e.r, values)
           IN BinaryOp_to_python(e.op, left_val, right_val)
      [] e.k = "un" ->
           LET operand_val == to_python(e.x, values)
           IN IF operand_val = Raised THEN Raised
              ELSE UnaryOp_PYTHON_OPS(e.op, operand_val, e.arg)
      [] e.k = "strop" ->
           LET operand_val == to_python(e.x, values)
           IN IF operand_val = Raised THEN Raised
              ELSE StringOp_PYTHON_OPS(e.op, operand_val, e.arg)
      [] e.k = "member" -> MembershipOp_to_python(e, values)
      [] e.k = "dt" ->
           LET operand_val == to_python(e.x, values)
           IN IF operand_val = Raised THEN Raised
              ELSE _extract_component(operand_val, e.op)

(***************************************************************************)
(* Constraint predicates as the bulk engine evaluates them on a frame.     *)
(***************************************************************************)

\* Python values other than DSL nodes that a validator can hand back: a
\* compiled Polars expression (of the DSL node e), a tuple, a dict, a
\* callable written by the schema author, and some value of no use here.
\* A str is the sequence of its words.
PlExpr(e) == [k |-> "plexpr", e |-> e]
Tuple(items) == [k |-> "tuple", items |-> items]
Dict(d) == [k |-> "dict", d |-> d]
UserCallable == [k |-> "callable"]
PyInt == [k |-> "int"]

\* hasattr(x, "to_polars"), hasattr(x, "to_python"): the DSL nodes have both
IsDslNode(x) == x.k \in {"col", "bin", "un", "strop", "member", "dt"}

\* dtype of a leaf in a frame; "err" when the column does not exist
LeafType(e, frame) ==
    IF e.k = "col"
    THEN IF e.name \in DOMAIN frame.dtype THEN frame.dtype[e.name] ELSE "err"
    ELSE e.val.t

\* Polars resolves columns and dtypes before it looks at any row: a predicate
\* over an absent column, or one comparing a Utf8 column with a number,
\* raises whatever the rows (also for a frame of height 0).
\* An entry whose predicate is no Polars expression at all raises as well.
PolarsRaises(e, frame) ==
    \/ e.k # "plexpr"
    \/ LET lt == LeafType(e.e.l, frame)
           rt == LeafType(e.e.r, frame)
       IN \/ lt = "err"
          \/ rt = "err"
          \/ (lt = "str") # (rt = "str")

\* value of the predicate on one row (only asked when PolarsRaises is false)
PolarsEval(e, row) == to_polars(e.e, row.val)

(***************************************************************************)
(* Schemas.  A field descriptor is an Integer field: name, nullable,       *)
(* default (MISSING when none was declared) and the ge bound (Null for     *)
(* Python None).  A validator declaration is the decorated function: how   *)
(* many parameters it takes and the value it returns.                      *)
(***************************************************************************)
\* the field descriptors by kind; a bound that is not declared is None
Integer(name, nullable, default, gt, ge, lt, le, multiple_of) ==
    [kind |-> "Integer", name |-> name, nullable |-> nullable,
     default |-> default, gt |-> gt, ge |-> ge, lt |-> lt, le |-> le,
     multiple_of |-> multiple_of]
Float(name, nullable, default, gt, ge, lt, le) ==
    [kind |-> "Float", name |-> name, nullable |-> nullable,
     default |-> default, gt |-> gt, ge |-> ge, lt |-> lt, le |-> le]
Datetime(name, nullable, default, gt, ge, lt, le) ==
    [kind |-> "Datetime", name |-> name, nullable |-> nullable,
     default |-> default, gt |-> gt, ge |-> ge, lt |-> lt, le |-> le]
String(name, nullable, default, min_length, max_length, pattern) ==
    [kind |-> "String", name |-> name, nullable |-> nullable,
     default |-> default, min_length |-> min_length,
     max_length |-> max_length, pattern |-> pattern]
Boolean(name, nullable, default) ==
    [kind |-> "Boolean", name |-> name, nullable |-> nullable, default |-> default]
Date(name, nullable, default) ==
    [kind |-> "Date", name |-> name, nullable |-> nullable, default |-> default]

\* the Integer fields of the schemas below declare at most ge
Field(name, nullable, default, ge) ==
    Integer(name, nullable, default, Null, ge, Null, Null, Null)

FieldsA ==
    { Field("a", n, d, g) : n \in BOOLEAN, d \in {MISSING, Null, I(1)},
                            g \in {Null, I(1)} }

FieldsB ==
    { Field("b", FALSE, MISSING, I(1)), Field("b", TRUE, I(1), Null) }

\* schemas with no field, with the field a, and with the fields a and b
\* (default=None is declared on the one-field schemas)
FieldLists ==
    {<<>>} \cup { <<fa>> : fa \in FieldsA }
           \cup { <<fa, fb>> : fa \in { f \in FieldsA : f.default # Null },
                               fb \in FieldsB }

\* @model_validator def check(cls): return col("a") <= col("b"), "a must not exceed b"
AleB ==
    [params |-> 1,
     result |-> Tuple(<<Bin("<=", Col("a"), Col("b")), <<"a must not exceed b">>>>)]

\* @model_validator def check(cls): return col("a") > 0
Apos == [params |-> 1, result |-> Bin(">", Col("a"), Lit(I(0)))]

ValidatorLists == {<<>>, <<AleB>>, <<AleB, Apos>>}

\* the schemas: any field list with no validator or with the cross-field
\* one, and the one-field schemas also with both validators, the first of
\* which then names a column the schema does not declare
Schemas ==
    { sc \in [fields : FieldLists, validators : ValidatorLists] :
        Len(sc.validators) = 2 => Len(sc.fields) = 1 }

FieldNames(fs) == { fs[i].name : i \in 1..Len(fs) }

(***************************************************************************)
(* Input frames.  Column a arrives as Int64 or as Utf8 (text that may or   *)
(* may not parse), b as Int64; every input frame also carries a column x   *)
(* that no schema declares.  The input order of the columns is x, b, a.    *)
(***************************************************************************)
InputOrder == <<"x", "b", "a">>

ColVals(c, ta) ==
    CASE c = "a" -> IF ta = "int" THEN {Null, I(0), I(1)} ELSE {S(1), Bad}
      [] c = "b" -> {Null, I(0), I(1)}
      [] c = "x" -> {I(0)}

\* the subsequence of s whose elements are in the set keep
Restrict(s, keep) == SelectSeq(s, LAMBDA e : e \in keep)

Frame(cols, dtype, rows) == [cols |-> cols, dtype |-> dtype, rows |-> rows]

FramesOf(cs, ta) ==
    LET dt == [c \in cs |-> IF c = "a" THEN ta ELSE "int"]
        RowSpace == { r \in [cs -> {Null, I(0), I(1), S(1), Bad}] :
                        \A c \in cs : r[c] \in ColVals(c, ta) }
    IN UNION { { Frame(Restrict(InputOrder, cs), dt,
                       [i \in 1..n |-> [id |-> i, val |-> rs[i]]]) :
                   rs \in [1..n -> RowSpace] } : n \in 0..MaxRows }

InputFrames ==
    UNION { FramesOf(cs \cup {"x"}, ta) : cs \in SUBSET {"a", "b"},
                                          ta \in {"int", "str"} }

NoFrame == Frame(<<>>, <<>>, <<>>)

\* the columns a call can read: the declared ones, which select keeps, and
\* for a schema without fields, where select is skipped, every column
ReadCols(fs, frame) ==
    IF fs = <<>> THEN { frame.cols[i] : i \in 1..Len(frame.cols) }
    ELSE { fs[i].name : i \in 1..Len(fs) }

\* the frames passed to a validator of the schema fs: a column that the call
\* cannot read holds one value throughout
FramesFor(fs) ==
    { frame \in InputFrames :
        \A c \in DOMAIN frame.dtype \ ReadCols(fs, frame) :
            \A i \in 1..Len(frame.rows) :
                frame.rows[i].val[c] = IF frame.dtype[c] = "str" THEN S(1) ELSE I(0) }

ColSet(frame) == { frame.cols[i] : i \in 1..Len(frame.cols) }
Height(frame) == Len(frame.rows)
RowIds(frame) == { frame.rows[i].id : i \in 1..Len(frame.rows) }
Rows(frame) == { frame.rows[i] : i \in 1..Len(frame.rows) }

\* df.filter(mask): the rows on which the mask is true, in their order;
\* a row on which the mask is null or false is dropped (mask gives the
\* value of the predicate on each row of the frame)
Filter(frame, mask) ==
    [frame EXCEPT !.rows = SelectSeq(frame.rows, LAMBDA r : mask[r] = True3)]

\* df[name].null_count()
NullCount(frame, name) ==
    Cardinality({ i \in 1..Len(frame.rows) : IsNull(frame.rows[i].val[name]) })

(***************************************************************************)
(* PolarsValidator.__init__                                                *)
(***************************************************************************)
\* constraints.append((expr, msg)) under "if bound is not None"
AppendIfDeclared(bound, expr, msg) ==
    IF bound # Null THEN << [expr |-> PlExpr(expr), msg |-> msg] >> ELSE <<>>

\* faulty variant: le is appended before lt
RangeConstraints_LeFirst(f) ==
    AppendIfDeclared(f.gt, Bin(">", Col(f.name), Lit(f.gt)),
                     <<f.name, "must be >", f.gt.v>>)
    \o AppendIfDeclared(f.ge, Bin(">=", Col(f.name), Lit(f.ge)),
                        <<f.name, "must be >=", f.ge.v>>)
    \o AppendIfDeclared(f.le, Bin("<=", Col(f.name), Lit(f.le)),
                        <<f.name, "must be <=", f.le.v>>)
    \o AppendIfDeclared(f.lt, Bin("<", Col(f.name), Lit(f.lt)),
                        <<f.name, "must be <", f.lt.v>>)

\* the four range entries of Integer, Float and Datetime
RangeConstraints(f) ==
    AppendIfDeclared(f.gt, Bin(">", Col(f.name), Lit(f.gt)),
                     <<f.name, "must be >", f.gt.v>>)
    \o AppendIfDeclared(f.ge, Bin(">=", Col(f.name), Lit(f.ge)),
                        <<f.name, "must be >=", f.ge.v>>)
    \o AppendIfDeclared(f.lt, Bin("<", Col(f.name), Lit(f.lt)),
                        <<f.name, "must be <", f.lt.v>>)
    \o AppendIfDeclared(f.le, Bin("<=", Col(f.name), Lit(f.le)),
                        <<f.name, "must be <=", f.le.v>>)

\* String.get_polars_constraints, after the call to super()
StringConstraints(f) ==
    AppendIfDeclared(f.min_length,
                     Bin(">=", StrOp("len_chars", Col(f.name), <<>>),
                         Lit(f.min_length)),
                     <<f.name, "must have at least", f.min_length.v, "characters">>)
    \o AppendIfDeclared(f.max_length,
                        Bin("<=", StrOp("len_chars", Col(f.name), <<>>),
                            Lit(f.max_length)),
                        <<f.name, "must have at most", f.max_length.v, "characters">>)
    \o AppendIfDeclared(f.pattern,
                        StrOp("contains", Col(f.name), f.pattern.s),
                        <<f.name, "must match pattern:", f.pattern.s>>)

\* get_polars_constraints of a named field, by kind: the entries the
\* subclass appends to the empty list of FieldBase
get_polars_constraints(f) ==
    CASE f.kind = "Integer" ->
           RangeConstraints(f)
           \o AppendIfDeclared(f.multiple_of,
                               Bin("==", Bin("%", Col(f.name), Lit(f.multiple_of)),
                                   Lit(I(0))),
                               <<f.name, "must be multiple of", f.multiple_of.v>>)
      [] f.kind \in {"Float", "Datetime"} -> RangeConstraints(f)
      [] f.kind = "String" -> StringConstraints(f)
      [] OTHER -> <<>>

\* faulty variant: the entries of the last field come first
FieldConstraints_LastFirst(fs) ==
    IF Len(fs) = 2
    THEN get_polars_constraints(fs[2]) \o get_polars_constraints(fs[1])
    ELSE IF Len(fs) = 1 THEN get_polars_constraints(fs[1])
    ELSE <<>>

RECURSIVE FieldConstraints(_)
\* the loop over self.fields.items(), in declaration order
FieldConstraints(fs) ==
    IF fs = <<>> THEN <<>>
    ELSE get_polars_constraints(Head(fs)) \o FieldConstraints(Tail(fs))

\* what a build step or a call comes to: the value it returns, or the error
\* it raises
Returns(val) == [raised |-> "none", val |-> val]
Raises(kind) == [raised |-> kind, val |-> PyInt]

\* node.to_polars(): the Polars expression of a DSL node
Compile(node) == PlExpr(node)

\* faulty variant: the dict form is not looked at before the tuple form, so
\* a dict falls through to the error of the last branch
get_polars_validator_NoDict(result) ==
    IF result.k = "tuple" /\ Len(result.items) = 2
    THEN LET expr == result.items[1]
         IN IF IsDslNode(expr)
            THEN Returns(Tuple(<<Compile(expr), result.items[2]>>))
            ELSE IF expr.k = "plexpr" THEN Returns(result)
            ELSE Raises("InvalidValidatorResult")
    ELSE IF IsDslNode(result)
    THEN Returns(Tuple(<<Compile(result), <<"Validation failed">>>>))
    ELSE Raises("InvalidValidatorResult")

\* ValidatorResult.get_polars_validator: the (expression, message) tuple of
\* a validator result, or the ValueError raised for it
get_polars_validator(result) ==
    IF result.k = "dict"
    THEN IF "polars" \notin DOMAIN result.d
         THEN Raises("MissingVectorizedKey")
         ELSE LET polars_val == result.d["polars"]
              IN IF polars_val.k = "tuple" THEN Returns(polars_val)
                 ELSE Returns(Tuple(<<polars_val, <<"Validation failed">>>>))
    ELSE IF result.k = "tuple" /\ Len(result.items) = 2
    THEN LET expr == result.items[1]
         IN IF IsDslNode(expr)
            THEN Returns(Tuple(<<Compile(expr), result.items[2]>>))
            ELSE IF expr.k = "plexpr" THEN Returns(result)
            ELSE Raises("InvalidValidatorResult")
    ELSE IF IsDslNode(result)
    THEN Returns(Tuple(<<Compile(result), <<"Validation failed">>>>))
    ELSE Raises("InvalidValidatorResult")

\* faulty variant: the build looks at the signature and calls a validator
\* without parameters with no argument
CallWithCls_BySignature(v) == Returns(v.result)

\* validator(self.schema_cls): the function is called with one argument
CallWithCls(v) ==
    IF v.params = 0 THEN Raises("TypeError") ELSE Returns(v.result)

RECURSIVE ValidatorConstraints(_, _, _)
\* the loop over schema_cls.model_validators() of _build_constraints; calls
\* counts the validator functions invoked
ValidatorConstraints(vs, constraints, calls) ==
    IF vs = <<>>
    THEN [raised |-> "none", constraints |-> constraints, calls |-> calls]
    ELSE
      LET called == CallWithCls(Head(vs))
          polars_validator == get_polars_validator(called.val)
          items == polars_validator.val.items
      IN IF called.raised # "none"
         THEN [raised |-> called.raised, constraints |-> constraints, calls |-> calls]
         ELSE IF polars_validator.raised # "none"
         THEN [raised |-> polars_validator.raised, constraints |-> constraints,
               calls |-> calls + 1]
         ELSE IF items = <<>>   \* "if polars_validator:" is false for ()
         THEN ValidatorConstraints(Tail(vs), constraints, calls + 1)
         ELSE IF Len(items) # 2   \* "expr, msg = polars_validator" cannot unpack
         THEN [raised |-> "ValueError", constraints |-> constraints,
               calls |-> calls + 1]
         ELSE ValidatorConstraints(Tail(vs),
                  Append(constraints, [expr |-> items[1], msg |-> items[2]]),
                  calls + 1)

\* PolarsValidator._build_constraints as it ends: the entries, field-level
\* ones first, then the model validators, or the error it raises
BuildConstraints(fs, vs) == ValidatorConstraints(vs, FieldConstraints(fs), 0)

\* the entry list of a validator that was built
_build_constraints(fs, vs) == BuildConstraints(fs, vs).constraints

(***************************************************************************)
(* create_pydantic_model: the model validators of the row model.           *)
(***************************************************************************)
PyNone == [k |-> "none"]

\* the closure "validator" that get_pydantic_validator builds around a DSL
\* expression: form "tuple" carries the declared message, form "bare" none
DslValidator(form, expr, msg) ==
    [k |-> "validator", form |-> form, expr |-> expr, msg |-> msg]

\* ValidatorResult.get_pydantic_validator: a callable, or None; warned tells
\* whether the "only used for Polars validation" warning was logged
get_pydantic_validator(result) ==
    IF result.k = "dict"
    THEN IF "pydantic" \notin DOMAIN result.d
         THEN [val |-> PyNone, warned |-> TRUE]
         ELSE [val |-> result.d["pydantic"], warned |-> FALSE]
    ELSE IF result.k = "tuple" /\ Len(result.items) = 2
    THEN IF IsDslNode(result.items[1])
         THEN [val |-> DslValidator("tuple", result.items[1], result.items[2]),
               warned |-> FALSE]
         ELSE [val |-> PyNone, warned |-> FALSE]
    ELSE IF IsDslNode(result)
    THEN [val |-> DslValidator("bare", result, <<"Validation failed">>),
          warned |-> FALSE]
    ELSE [val |-> PyNone, warned |-> FALSE]

\* func(schema_cls) if the signature has a parameter, func() otherwise
CallBySignature(v) == Returns(v.result)

RECURSIVE PydanticValidators(_, _, _)
\* the loop over schema_cls.model_validators() of create_pydantic_model
PydanticValidators(vs, validators_to_add, calls) ==
    IF vs = <<>>
    THEN [raised |-> "none", validators_to_add |-> validators_to_add,
          calls |-> calls]
    ELSE
      LET called == CallBySignature(Head(vs))
          pydantic_val == get_pydantic_validator(called.val).val
      IN IF called.raised # "none"
         THEN [raised |-> called.raised, validators_to_add |-> validators_to_add,
               calls |-> calls]
         ELSE PydanticValidators(Tail(vs),
                  IF pydantic_val # PyNone
                  THEN Append(validators_to_add, pydantic_val)
                  ELSE validators_to_add,
                  calls + 1)

\* faulty variant: only an outright False fails the record
Falsy_OnlyFalse(result) == result = False3

\* the value of expr.to_python(values) is falsy ("if not result")
Falsy(result) == ~Truthy(result)

\* the closure applied to a record: it returns the record, or raises
\* ValueError with a message.  A ValueError of the tuple form passes through
\* "except ValueError: raise"; any exception of the bare form, its own
\* ValueError included, is wrapped by "except Exception".
pydantic_validator(v, values) ==
    LET result == to_python(v.expr, values)
    IN IF result = Raised
       THEN [raised |-> "ValueError", val |-> values,
             msg |-> v.msg \o <<":", "error">>]
       ELSE IF Falsy(result)
       THEN [raised |-> "ValueError", val |-> values,
             msg |-> IF v.form = "tuple" THEN v.msg
                     ELSE <<"Validation failed", ":", "Validation failed">>]
       ELSE [raised |-> "none", val |-> values, msg |-> <<>>]

(***************************************************************************)
(* PolarsValidator.validate, stage by stage.                               *)
(***************************************************************************)
Err(kind, field, count, names, msg) ==
    [kind |-> kind, field |-> field, count |-> count, names |-> names, msg |-> msg]

NoErr == Err("none", "", 0, {}, <<>>)

LogEntry(ev, what, n) == [ev |-> ev, what |-> what, n |-> n]

\* faulty variant: only the first missing required field is reported
MissingRequired_First(fs, frame) ==
    LET idx == { j \in 1..Len(fs) : fs[j].default = MISSING
                                     /\ fs[j].name \notin ColSet(frame) }
    IN IF idx = {} THEN {}
       ELSE { fs[CHOOSE j \in idx : \A m \in idx : j <= m].name }

\* names of the fields with no declared default that have no column
MissingRequired(fs, frame) ==
    { fs[i].name : i \in { j \in 1..Len(fs) : fs[j].default = MISSING } }
        \ ColSet(frame)

\* df.with_columns(<expr>.alias(name)): replaces the column in place when it
\* exists, appends it otherwise; cell[r] is the new value on row r
WithColumn(frame, name, cell) ==
    [cols |-> IF name \in ColSet(frame) THEN frame.cols
              ELSE Append(frame.cols, name),
     dtype |-> [c \in DOMAIN frame.dtype \cup {name} |->
                  IF c = name THEN "int" ELSE frame.dtype[c]],
     rows |-> [i \in 1..Len(frame.rows) |->
                 [id |-> frame.rows[i].id,
                  val |-> [c \in DOMAIN frame.dtype \cup {name} |->
                             IF c = name THEN cell[frame.rows[i]]
                             ELSE frame.rows[i].val[c]]]]]

\* faulty variant: the new column is created empty instead of holding the default
LitCast_Null(default) == Null

\* pl.lit(default).cast(pl.Int64): the declared defaults are None or integers
LitCast(default) == default

RECURSIVE AddDefaultsLoop(_, _, _)
AddDefaultsLoop(todo, frame, log) ==
    IF todo = <<>> THEN [df |-> frame, log |-> log]
    ELSE LET f == Head(todo)
         IN AddDefaultsLoop(Tail(todo),
                WithColumn(frame, f.name, [r \in Rows(frame) |-> LitCast(f.default)]),
                Append(log, LogEntry("added default", <<f.name>>, 0)))

AddDefaults(fs, frame) ==
    LET missing_with_defaults ==
            SelectSeq(fs, LAMBDA f : f.name \notin ColSet(frame)
                                     /\ f.default # MISSING)
    IN AddDefaultsLoop(missing_with_defaults, frame, <<>>)

\* pl.col(c).cast(pl.Int64, strict=False): text that does not parse becomes null
CastLenient(x) ==
    CASE x.t = "str" -> I(x.v)
      [] x.t = "badstr" -> Null
      [] OTHER -> x

\* faulty variant: the declared columns are selected in the order of the input frame
CoerceTypes_InputOrder(fs, frame) ==
    LET cast_exprs == Restrict(frame.cols, FieldNames(fs))
        keep == { cast_exprs[i] : i \in 1..Len(cast_exprs) }
    IN IF cast_exprs # <<>>
       THEN [cols |-> cast_exprs,
             dtype |-> [c \in keep |-> "int"],
             rows |-> [i \in 1..Len(frame.rows) |->
                         [id |-> frame.rows[i].id,
                          val |-> [c \in keep |->
                                     CastLenient(frame.rows[i].val[c])]]]]
       ELSE frame

\* faulty variant: the declared columns are selected walking the frame's
\* columns backwards
CoerceTypes_Reversed(fs, frame) ==
    LET present == Restrict(frame.cols, FieldNames(fs))
        cast_exprs == [i \in 1..Len(present) |-> present[Len(present) + 1 - i]]
        keep == { cast_exprs[i] : i \in 1..Len(cast_exprs) }
    IN IF cast_exprs # <<>>
       THEN [cols |-> cast_exprs,
             dtype |-> [c \in keep |-> "int"],
             rows |-> [i \in 1..Len(frame.rows) |->
                         [id |-> frame.rows[i].id,
                          val |-> [c \in keep |->
                                     CastLenient(frame.rows[i].val[c])]]]]
       ELSE frame

\* cast every declared column that is present and select them in schema
\* order; with no such column the frame is left as it is
CoerceTypes(fs, frame) ==
    LET names == [i \in 1..Len(fs) |-> fs[i].name]
        cast_exprs == Restrict(names, ColSet(frame))
        keep == { cast_exprs[i] : i \in 1..Len(cast_exprs) }
    IN IF cast_exprs # <<>>
       THEN [cols |-> cast_exprs,
             dtype |-> [c \in keep |-> "int"],
             rows |-> [i \in 1..Len(frame.rows) |->
                         [id |-> frame.rows[i].id,
                          val |-> [c \in keep |->
                                     CastLenient(frame.rows[i].val[c])]]]]
       ELSE frame

\* faulty variant: nulls are filled whenever a default exists, whatever fill_nulls
ShouldFill_Always(f, fill_nulls) == f.default # MISSING

\* "if fill_nulls and field.default is not _MISSING"
ShouldFill(f, fill_nulls) == fill_nulls /\ f.default # MISSING

\* df.with_columns(pl.col(name).fill_null(pl.lit(default).cast(dtype)))
FillNull(frame, name, default) ==
    WithColumn(frame, name,
        [r \in Rows(frame) |->
            IF IsNull(r.val[name]) THEN LitCast(default) ELSE r.val[name]])

\* faulty variant: null rows of a non-nullable field are not filtered out
DropNullRows_None(frame, name) == frame

\* df.filter(pl.col(name).is_not_null())
DropNullRows(frame, name) == 
    Filter(frame, [r \in Rows(frame) |-> B(~IsNull(r.val[name]))])

RECURSIVE HandleNullsLoop(_, _, _, _, _)
HandleNullsLoop(fs, frame, strict, fill_nulls, log) ==
    IF fs = <<>> THEN [df |-> frame, err |-> NoErr, log |-> log]
    ELSE
      LET f == Head(fs)
          null_count == NullCount(frame, f.name)
      IN IF f.name \notin ColSet(frame)
         THEN HandleNullsLoop(Tail(fs), frame, strict, fill_nulls, log)
         ELSE IF null_count = 0
         THEN HandleNullsLoop(Tail(fs), frame, strict, fill_nulls, log)
         ELSE IF ShouldFill(f, fill_nulls)
         THEN HandleNullsLoop(Tail(fs), FillNull(frame, f.name, f.default),
                  strict, fill_nulls,
                  Append(log, LogEntry("filled nulls", <<f.name>>, null_count)))
         ELSE IF ~f.nullable
         THEN IF strict
              THEN [df |-> frame,
                    err |-> Err("NonNullableColumnHasNulls", f.name,
                                null_count, {}, <<>>),
                    log |-> log]
              ELSE HandleNullsLoop(Tail(fs), DropNullRows(frame, f.name),
                                   strict, fill_nulls, log)
         ELSE HandleNullsLoop(Tail(fs), frame, strict, fill_nulls, log)

HandleNulls(fs, frame, strict, fill_nulls) ==
    HandleNullsLoop(fs, frame, strict, fill_nulls, <<>>)

\* number of sample rows kept in a violation summary (.head(10))
SummaryRows == 10

Head_(rows, n) == SubSeq(rows, 1, IF Len(rows) < n THEN Len(rows) ELSE n)

\* faulty variant: the non-strict branch records the violation but keeps every row
KeepValid_NoFilter(frame, expr) == frame

\* df.filter(constraint_expr)
KeepValid(frame, expr) ==
    Filter(frame, [r \in Rows(frame) |-> PolarsEval(expr, r)])

\* The body of the try block for one entry.  raised is the exception the
\* body ends with (NoErr when it runs to its end): a Polars error when the
\* predicate cannot be evaluated, the ValueError of strict mode otherwise.
TryEntry(entry, frame, strict) ==
    IF PolarsRaises(entry.expr, frame)
    THEN [raised |-> Err("PolarsError", "", 0, {}, <<>>), df |-> frame,
          violation |-> <<>>]
    ELSE
      LET invalid == Filter(frame, [r \in Rows(frame) |->
                                      PolarsNot(PolarsEval(entry.expr, r))])
          violation_count == Height(invalid)
      IN IF violation_count > 0
         THEN IF strict
              THEN [raised |-> Err("ConstraintViolation", "", violation_count,
                                   {}, entry.msg),
                    df |-> frame, violation |-> <<>>]
              ELSE [raised |-> NoErr,
                    df |-> KeepValid(frame, entry.expr),
                    violation |-> << [constraint |-> entry.msg,
                                      count |-> violation_count,
                                      rows |-> Head_(invalid.rows, SummaryRows)] >>]
         ELSE [raised |-> NoErr, df |-> frame, violation |-> <<>>]

\* "except Exception as e": the handler that follows the try block; it takes
\* every exception the body ends with, the strict-mode ValueError included
\* faulty variant: the handler is "except ValueError"
CaughtByExcept_ValueError(raised) == raised.kind = "ConstraintViolation"

CaughtByExcept(raised) == raised.kind \in {"PolarsError", "ConstraintViolation"}

RECURSIVE ApplyConstraintsLoop(_, _, _, _, _)
ApplyConstraintsLoop(cs, frame, strict, violations, log) ==
    IF cs = <<>>
    THEN [df |-> frame, err |-> NoErr, violations |-> violations, log |-> log]
    ELSE
      LET entry == Head(cs)
          body == TryEntry(entry, frame, strict)
      IN IF body.raised = NoErr
         THEN ApplyConstraintsLoop(Tail(cs), body.df, strict,
                                   violations \o body.violation, log)
         ELSE IF CaughtByExcept(body.raised)
         THEN ApplyConstraintsLoop(Tail(cs), frame, strict, violations,
                  Append(log, LogEntry("could not evaluate", entry.msg, 0)))
         ELSE [df |-> frame, err |-> body.raised,
               violations |-> violations, log |-> log]

ApplyConstraints(cs, frame, strict) ==
    ApplyConstraintsLoop(cs, frame, strict, <<>>, <<>>)

\* the warnings of "if show_violations:", one per recorded summary
ShownViolations(violations, show_violations) ==
    IF show_violations
    THEN [i \in 1..Len(violations) |->
            LogEntry("violation", violations[i].constraint, violations[i].count)]
    ELSE <<>>

\* faulty variant: the loop uses the list up
IteratedList_Consumed(cs) == <<>>

\* self._constraints after "for constraint_expr, error_msg in
\* self._constraints": iterating a list leaves it as it was
IteratedList(cs) == cs

\* PolarsValidator.describe_constraints
describe_constraints(cs) == [i \in 1..Len(cs) |-> cs[i].msg]

\* validate(frame, strict, fill_nulls) as one function of its arguments: the
\* frame it returns, or the error it raises
validate(fs, cs, frame, strict, fill_nulls) ==
    LET missing == MissingRequired(fs, frame)
        nulls == HandleNulls(fs, CoerceTypes(fs, AddDefaults(fs, frame).df),
                             strict, fill_nulls)
        done == ApplyConstraints(cs, nulls.df, strict)
    IN IF missing # {}
       THEN [df |-> frame,
             err |-> Err("MissingRequiredColumns", "", 0, missing, <<>>)]
       ELSE IF nulls.err # NoErr THEN [df |-> nulls.df, err |-> nulls.err]
       ELSE [df |-> done.df, err |-> done.err]

(***************************************************************************)
(* The state machine: one validator, built from a schema, serving calls.   *)
(***************************************************************************)
VARIABLES
    fields,           \* PolarsValidator.fields, in declaration order
    validators,       \* schema_cls.model_validators()
    constraints,      \* PolarsValidator._constraints
    pc,               \* the stage the current call is at, "idle" between calls
    in_df,            \* the frame the caller passed
    strict,
    show_violations,
    fill_nulls,
    df,               \* the local variable df of validate
    err,              \* the exception validate raised, NoErr if none
    violations,       \* the local list of violation summaries
    log,              \* what the call has logged so far
    dsl_pc,           \* "idle", or which backends have evaluated dsl_node
    dsl_node,         \* the DSL expression under evaluation
    dsl_values,       \* the record it is evaluated on
    polars_result,    \* value of node.to_polars() on the one-row frame
    python_result,    \* value of node.to_python(values)
    build_pc,         \* "idle", "declared" or "called"
    decl,             \* the @model_validator function of the schema being built
    polars_validator, \* what get_polars_validator made of its result
    polars_build,     \* how PolarsValidator(schema) ended
    pydantic_build,   \* how create_pydantic_model(schema) ended
    py_values,        \* the record the row model's validator was applied to
    py_outcome,       \* how that application ended
    fd,               \* a field descriptor: its declaration, whether the
                      \* metaclass has set its name, and _needs_warning
    retrievals,       \* how the get_polars_constraints calls on it ended
    thr               \* the threads inside get_polars_constraints

\* nothing declared, nothing built
NotYet == [raised |-> "pending"]
NoDecl == [params |-> 1, result |-> PyNone]

vars == <<fields, validators, constraints, pc, in_df, strict, show_violations,
          fill_nulls, df, err, violations, log,
          dsl_pc, dsl_node, dsl_values, polars_result, python_result,
          build_pc, decl, polars_validator, polars_build, pydantic_build,
          py_values, py_outcome, fd, retrievals, thr>>

field_vars == <<fd, retrievals, thr>>

build_vars == <<build_pc, decl, polars_validator, polars_build, pydantic_build,
                py_values, py_outcome>>

dsl_vars == <<dsl_pc, dsl_node, dsl_values, polars_result, python_result>>
engine_vars == <<fields, validators, constraints, pc, in_df, strict,
                 show_violations, fill_nulls, df, err, violations, log>>

schema_vars == <<fields, validators, constraints>>
arg_vars == <<in_df, strict, show_violations, fill_nulls>>

\* no descriptor under observation
NoField == [f |-> Boolean("a", FALSE, MISSING), named |-> TRUE,
            _needs_warning |-> FALSE]

BuildIdle ==
    /\ fd = NoField
    /\ retrievals = <<>>
    /\ thr = <<>>
    /\ build_pc = "idle"
    /\ decl = NoDecl
    /\ polars_validator = NotYet
    /\ polars_build = NotYet
    /\ pydantic_build = NotYet
    /\ py_values = <<>>
    /\ py_outcome = NotYet

Init ==
    /\ \E sc \in Schemas : fields = sc.fields /\ validators = sc.validators
    /\ BuildConstraints(fields, validators).raised = "none"
    /\ constraints = _build_constraints(fields, validators)
    /\ pc = "idle"
    /\ in_df = NoFrame
    /\ strict = TRUE
    /\ show_violations = FALSE
    /\ fill_nulls = FALSE
    /\ df = NoFrame
    /\ err = NoErr
    /\ violations = <<>>
    /\ log = <<>>
    /\ dsl_pc = "idle"
    /\ dsl_node = Lit(Null)
    /\ dsl_values = <<>>
    /\ polars_result = Null
    /\ python_result = Null
    /\ BuildIdle

\* validator.validate(frame, strict=s, show_violations=v, fill_nulls=f)
Call ==
    /\ pc = "idle"
    /\ \E frame \in FramesFor(fields),
          s \in BOOLEAN, v \in BOOLEAN, f \in BOOLEAN :
         /\ in_df' = frame
         /\ df' = frame
         /\ strict' = s
         /\ show_violations' = v
         /\ fill_nulls' = f
    /\ pc' = "CheckRequired"
    /\ err' = NoErr
    /\ violations' = <<>>
    /\ log' = <<>>
    /\ UNCHANGED <<dsl_vars, build_vars, field_vars, schema_vars>>

CheckRequired ==
    /\ pc = "CheckRequired"
    /\ LET missing == MissingRequired(fields, df)
       IN IF missing # {}
          THEN /\ pc' = "Raised"
               /\ err' = Err("MissingRequiredColumns", "", 0, missing, <<>>)
          ELSE /\ pc' = "AddDefaults"
               /\ err' = err
    /\ UNCHANGED <<dsl_vars, build_vars, field_vars, schema_vars, arg_vars, df, violations, log>>

AddDefaultsStep ==
    /\ pc = "AddDefaults"
    /\ LET r == AddDefaults(fields, df)
       IN /\ df' = r.df
          /\ log' = log \o r.log
    /\ pc' = "CoerceTypes"
    /\ UNCHANGED <<dsl_vars, build_vars, field_vars, schema_vars, arg_vars, err, violations>>

CoerceTypesStep ==
    /\ pc = "CoerceTypes"
    /\ df' = CoerceTypes(fields, df)
    /\ pc' = "HandleNulls"
    /\ UNCHANGED <<dsl_vars, build_vars, field_vars, schema_vars, arg_vars, err, violations, log>>

HandleNullsStep ==
    /\ pc = "HandleNulls"
    /\ LET r == HandleNulls(fields, df, strict, fill_nulls)
       IN /\ df' = r.df
          /\ log' = log \o r.log
          /\ err' = r.err
          /\ pc' = IF r.err # NoErr THEN "Raised" ELSE "ApplyConstraints"
    /\ UNCHANGED <<dsl_vars, build_vars, field_vars, schema_vars, arg_vars, violations>>

\* the constraint loop, the show_violations report and the return
ApplyConstraintsStep ==
    /\ pc = "ApplyConstraints"
    /\ LET r == ApplyConstraints(constraints, df, strict)
       IN /\ df' = r.df
          /\ err' = r.err
          /\ violations' = r.violations
          /\ log' = IF r.err # NoErr THEN log \o r.log
                    ELSE log \o r.log \o ShownViolations(r.violations, show_violations)
          /\ pc' = IF r.err # NoErr THEN "Raised" ELSE "Done"
    /\ constraints' = IteratedList(constraints)
    /\ UNCHANGED <<dsl_vars, build_vars, field_vars, fields, validators, arg_vars>>

\* the caller has the result (or the exception); the validator is free again
Finish ==
    /\ pc \in {"Done", "Raised"}
    /\ pc' = "idle"
    /\ in_df' = NoFrame
    /\ df' = NoFrame
    /\ strict' = TRUE
    /\ show_violations' = FALSE
    /\ fill_nulls' = FALSE
    /\ err' = NoErr
    /\ violations' = <<>>
    /\ log' = <<>>
    /\ UNCHANGED <<dsl_vars, build_vars, field_vars, schema_vars>>

Next ==
    \/ Call
    \/ CheckRequired
    \/ AddDefaultsStep
    \/ CoerceTypesStep
    \/ HandleNullsStep
    \/ ApplyConstraintsStep
    \/ Finish

Spec == Init /\ [][Next]_vars

(***************************************************************************)
(* The two backends of one DSL expression, side by side: the expression is *)
(* compiled for Polars and run on a one-row frame, and evaluated in Python *)
(* on the same record, as a model validator is by the Pydantic generator.  *)
(***************************************************************************)
DslInts == {I(-1), I(0), I(1), I(4)}
DslBools == {True3, False3}
DslTexts == {T(<<>>), T(<<"a">>), T(<<"b", "a">>), T(<<"A", "b">>)}

\* records with two Integer fields, two Boolean fields and a String field,
\* any of them null
DslRecords ==
    [a : DslInts \cup {Null}, b : DslInts \cup {Null},
     p : DslBools \cup {Null}, q : DslBools \cup {Null},
     s : DslTexts \cup {Null}]

\* the lists of is_in and the bounds of is_between
IsInLists == {List(<<I(0), I(1)>>), List(<<Null, I(1)>>)}
BoundPairs ==
    {<<BoundVal(I(0)), BoundVal(I(1))>>,
     <<BoundStr("b"), BoundVal(I(4))>>,
     <<BoundNone, BoundVal(I(1))>>,
     <<BoundVal(I(-1)), Col("b")>>}

MembershipNodes ==
    {MembershipOp("is_in", Col("a"), l, ne, "both") :
        l \in IsInLists, ne \in BOOLEAN}
    \cup {MembershipOp("is_between", Col("a"), bp, FALSE, closed) :
            bp \in BoundPairs, closed \in VALID_CLOSED}
    \cup {MembershipOp("is_between", Col("a"), <<BoundVal(I(0)), BoundVal(I(1))>>,
                       FALSE, "open")}
    \cup {MembershipOp("is_in", Col("a"), NotACollection, ne, "both") :
            ne \in BOOLEAN}

\* components of a literal date and of a literal datetime
DateTimeNodes ==
    {DateTimeOp(op, Lit(x)) : op \in {"year", "hour", "second"},
                               x \in {D(1), DT(1)}}

\* & and | whose right operand can fail: a comparison with a null, a field
\* the record does not have
EagerNodes ==
    {Bin(op, Col("p"), r) : op \in LogicOps,
                            r \in {Bin(">", Col("a"), Lit(I(0))), Col("z")}}

DslNodes ==
    MembershipNodes \cup DateTimeNodes \cup EagerNodes
    \cup {Bin(op, Col("a"), Col("b")) : op \in CmpOps \cup ArithOps}
    \cup {Bin(op, Col("a"), Lit(I(1))) : op \in CmpOps \cup ArithOps}
    \cup {Bin(op, Col("p"), Col("q")) : op \in LogicOps}
    \cup {Un(op, Col("a"), 2) : op \in UnaryOps \ {"~"}}
    \cup {Un("~", Col("p"), 0)}
    \cup {StrOp(op, Col("s"), <<"a">>) : op \in StringOps}
    \cup {Bin("&", Bin(">", Col("a"), Lit(I(0))), Un("is_not_null", Col("b"), 0)),
          Bin("<=", Un("abs", Col("a"), 0), Col("b")),
          Bin("|", Un("~", Col("p"), 0), Col("q")),
          Bin(">", StrOp("len_chars", Col("s"), <<>>), Lit(I(1)))}

InitDsl ==
    /\ fields = <<>>
    /\ validators = <<>>
    /\ constraints = <<>>
    /\ pc = "idle"
    /\ in_df = NoFrame
    /\ strict = TRUE
    /\ show_violations = FALSE
    /\ fill_nulls = FALSE
    /\ df = NoFrame
    /\ err = NoErr
    /\ violations = <<>>
    /\ log = <<>>
    /\ dsl_pc = "idle"
    /\ dsl_node = Lit(Null)
    /\ dsl_values = <<>>
    /\ polars_result = Null
    /\ python_result = Null
    /\ BuildIdle

\* an expression and a record to evaluate it on
Evaluate ==
    /\ dsl_pc = "idle"
    /\ dsl_node' \in DslNodes
    /\ dsl_values' \in DslRecords
    /\ dsl_pc' = "none"
    /\ UNCHANGED <<engine_vars, build_vars, field_vars, polars_result, python_result>>

\* pl.DataFrame([values]).select(node.to_polars())
ToPolars ==
    /\ dsl_pc \in {"none", "python"}
    /\ polars_result' = to_polars(dsl_node, dsl_values)
    /\ dsl_pc' = IF dsl_pc = "none" THEN "polars" ELSE "both"
    /\ UNCHANGED <<engine_vars, build_vars, field_vars, dsl_node, dsl_values, python_result>>

\* node.to_python(values)
ToPython ==
    /\ dsl_pc \in {"none", "polars"}
    /\ python_result' = to_python(dsl_node, dsl_values)
    /\ dsl_pc' = IF dsl_pc = "none" THEN "python" ELSE "both"
    /\ UNCHANGED <<engine_vars, build_vars, field_vars, dsl_node, dsl_values, polars_result>>

Forget ==
    /\ dsl_pc = "both"
    /\ dsl_pc' = "idle"
    /\ dsl_node' = Lit(Null)
    /\ dsl_values' = <<>>
    /\ polars_result' = Null
    /\ python_result' = Null
    /\ UNCHANGED <<engine_vars, build_vars, field_vars>>

NextDsl ==
    \/ Evaluate
    \/ ToPolars
    \/ ToPython
    \/ Forget

SpecDsl == InitDsl /\ [][NextDsl]_vars

(***************************************************************************)
(* Building both generators from a schema with one model validator, and    *)
(* applying the row model's validator to a record.                         *)
(***************************************************************************)
Agt0 == Bin(">", Col("a"), Lit(I(0)))
SomeMsg == <<"a must be positive">>

\* what the decorated function returns: well-formed results of every form,
\* and malformed ones
DeclResults ==
    { Agt0,
      Col("a"),
      Bin("<=", Col("a"), Col("b")),
      Tuple(<<Agt0, SomeMsg>>),
      Tuple(<<PlExpr(Agt0), SomeMsg>>),
      Tuple(<<PyInt, SomeMsg>>),
      Tuple(<<Agt0>>),
      Tuple(<<Agt0, SomeMsg, SomeMsg>>),
      Dict([key \in {"polars"} |-> PlExpr(Agt0)]),
      Dict([key \in {"polars"} |-> Tuple(<<PlExpr(Agt0), SomeMsg>>)]),
      Dict([key \in {"polars", "pydantic"} |->
               IF key = "polars" THEN PlExpr(Agt0) ELSE UserCallable]),
      Dict([key \in {"pydantic"} |-> UserCallable]),
      Dict(<<>>),
      PlExpr(Agt0),
      PyInt,
      PyNone }

Decls == [params : {0, 1}, result : DeclResults]

\* records the row model is instantiated with; the last has no field b
BuildRecords ==
    [a : {Null, I(0), I(1)}, b : {I(0), I(1)}] \cup {[a |-> I(1)]}

InitBuild ==
    /\ fields = <<>>
    /\ validators = <<>>
    /\ constraints = <<>>
    /\ pc = "idle"
    /\ in_df = NoFrame
    /\ strict = TRUE
    /\ show_violations = FALSE
    /\ fill_nulls = FALSE
    /\ df = NoFrame
    /\ err = NoErr
    /\ violations = <<>>
    /\ log = <<>>
    /\ dsl_pc = "idle"
    /\ dsl_node = Lit(Null)
    /\ dsl_values = <<>>
    /\ polars_result = Null
    /\ python_result = Null
    /\ BuildIdle

\* class SomeSchema(Schema) with one @model_validator function
Declare ==
    /\ build_pc = "idle"
    /\ decl' \in Decls
    /\ build_pc' = "declared"
    /\ UNCHANGED <<engine_vars, dsl_vars, field_vars, polars_validator, polars_build,
                   pydantic_build, py_values, py_outcome>>

\* SomeSchema.to_polars_model(): PolarsValidator(schema_cls)
BuildPolars ==
    /\ build_pc = "declared"
    /\ polars_build = NotYet
    /\ polars_build' = BuildConstraints(<<>>, <<decl>>)
    /\ polars_validator' =
          IF CallWithCls(decl).raised # "none" THEN NotYet
          ELSE get_polars_validator(CallWithCls(decl).val)
    /\ UNCHANGED <<engine_vars, dsl_vars, field_vars, build_pc, decl, pydantic_build,
                   py_values, py_outcome>>

\* SomeSchema.to_pydantic(): create_pydantic_model(schema_cls)
BuildPydantic ==
    /\ build_pc = "declared"
    /\ pydantic_build = NotYet
    /\ pydantic_build' = PydanticValidators(<<decl>>, <<>>, 0)
    /\ UNCHANGED <<engine_vars, dsl_vars, field_vars, build_pc, decl, polars_validator,
                   polars_build, py_values, py_outcome>>

\* Model(**values): validate_all applies the validator built from the DSL
CallValidator ==
    /\ build_pc = "declared"
    /\ pydantic_build # NotYet
    /\ pydantic_build.validators_to_add # <<>>
    /\ pydantic_build.validators_to_add[1].k = "validator"
    /\ \E values \in BuildRecords :
          /\ py_values' = values
          /\ py_outcome' = pydantic_validator(pydantic_build.validators_to_add[1],
                                               values)
    /\ build_pc' = "called"
    /\ UNCHANGED <<engine_vars, dsl_vars, field_vars, decl, polars_validator, polars_build,
                   pydantic_build>>

ForgetBuild ==
    /\ \/ build_pc = "called"
       \/ build_pc = "declared" /\ polars_build # NotYet /\ pydantic_build # NotYet
    /\ build_pc' = "idle"
    /\ decl' = NoDecl
    /\ polars_validator' = NotYet
    /\ polars_build' = NotYet
    /\ pydantic_build' = NotYet
    /\ py_values' = <<>>
    /\ py_outcome' = NotYet
    /\ UNCHANGED <<engine_vars, dsl_vars, field_vars>>

NextBuild ==
    \/ Declare
    \/ BuildPolars
    \/ BuildPydantic
    \/ CallValidator
    \/ ForgetBuild

SpecBuild == InitBuild /\ [][NextBuild]_vars

(***************************************************************************)
(* One field descriptor, from its construction on: the metaclass sets its  *)
(* name, and get_polars_constraints is called on it any number of times    *)
(* (every PolarsValidator built from the schema calls it once).            *)
(***************************************************************************)
MaxRetrievals == 3

\* nullable and default as declared: the default is missing, None or a value
NullableDefaults ==
    {<<FALSE, MISSING>>, <<TRUE, MISSING>>, <<FALSE, I(1)>>, <<TRUE, I(1)>>,
     <<TRUE, Null>>}

IntegerFields(nd) ==
    { Integer("a", nd[1], nd[2], gt, ge, lt, le, m) :
        gt \in {Null, I(0)}, ge \in {Null, I(0)}, lt \in {Null, I(1)},
        le \in {Null, I(1)}, m \in {Null, I(0), I(2)} }
FloatFields(nd) ==
    { Float("a", nd[1], nd[2], gt, ge, lt, le) :
        gt \in {Null, F4(0)}, ge \in {Null, F4(0)}, lt \in {Null, F4(4)},
        le \in {Null, F4(4)} }
DatetimeFields(nd) ==
    { Datetime("a", nd[1], nd[2], gt, ge, lt, le) :
        gt \in {Null, I(0)}, ge \in {Null, I(0)}, lt \in {Null, I(1)},
        le \in {Null, I(1)} }
StringFields(nd) ==
    { String("a", nd[1], nd[2], mn, mx, pt) :
        mn \in {Null, I(0), I(1)}, mx \in {Null, I(1)},
        pt \in {Null, T(<<"a">>)} }

Descriptors ==
    UNION { IntegerFields(nd) \cup FloatFields(nd) \cup DatetimeFields(nd)
            \cup StringFields(nd)
            \cup {Boolean("a", nd[1], nd[2]), Date("a", nd[1], nd[2])} :
            nd \in NullableDefaults }

\* FieldBase.__init__: no name yet, and the warning is owed when the field
\* is nullable and has a default
FieldBase_init(f) ==
    [f |-> f, named |-> FALSE,
     _needs_warning |-> (f.nullable /\ f.default # MISSING)]

\* faulty variant: the flag is left set
FieldBase_get_polars_constraints_KeepFlag(d) ==
    IF ~d.named
    THEN [raised |-> "RuntimeError", warned |-> FALSE,
          _needs_warning |-> d._needs_warning, val |-> <<>>]
    ELSE [raised |-> "none", warned |-> d._needs_warning,
          _needs_warning |-> d._needs_warning, val |-> get_polars_constraints(d.f)]

\* one whole call of get_polars_constraints on the descriptor d: the error
\* for an unset name, else the warning if it is owed, the cleared flag and
\* the list of the subclass
FieldBase_get_polars_constraints(d) ==
    IF ~d.named
    THEN [raised |-> "RuntimeError", warned |-> FALSE,
          _needs_warning |-> d._needs_warning, val |-> <<>>]
    ELSE [raised |-> "none", warned |-> d._needs_warning,
          _needs_warning |-> FALSE, val |-> get_polars_constraints(d.f)]

InitField ==
    /\ fields = <<>>
    /\ validators = <<>>
    /\ constraints = <<>>
    /\ pc = "idle"
    /\ in_df = NoFrame
    /\ strict = TRUE
    /\ show_violations = FALSE
    /\ fill_nulls = FALSE
    /\ df = NoFrame
    /\ err = NoErr
    /\ violations = <<>>
    /\ log = <<>>
    /\ dsl_pc = "idle"
    /\ dsl_node = Lit(Null)
    /\ dsl_values = <<>>
    /\ polars_result = Null
    /\ python_result = Null
    /\ build_pc = "idle"
    /\ decl = NoDecl
    /\ polars_validator = NotYet
    /\ polars_build = NotYet
    /\ pydantic_build = NotYet
    /\ py_values = <<>>
    /\ py_outcome = NotYet
    /\ fd \in { FieldBase_init(f) : f \in Descriptors }
    /\ retrievals = <<>>
    /\ thr = <<>>

\* SchemaMeta.__new__: field.name = field_name
SetName ==
    /\ ~fd.named
    /\ fd' = [fd EXCEPT !.named = TRUE]
    /\ UNCHANGED <<engine_vars, dsl_vars, build_vars, retrievals, thr>>

\* field.get_polars_constraints()
Retrieve ==
    /\ Len(retrievals) < MaxRetrievals
    /\ LET r == FieldBase_get_polars_constraints(fd)
       IN /\ fd' = [fd EXCEPT !._needs_warning = r._needs_warning]
          /\ retrievals' = Append(retrievals,
                                  [raised |-> r.raised, warned |-> r.warned,
                                   val |-> r.val])
    /\ UNCHANGED <<engine_vars, dsl_vars, build_vars, thr>>

NextField ==
    \/ SetName
    \/ Retrieve

SpecField == InitField /\ [][NextField]_vars

(***************************************************************************)
(* One named field descriptor shared by threads that call                  *)
(* get_polars_constraints on it concurrently.  A thread can be suspended   *)
(* between the test of _needs_warning, the call of warnings.warn and the   *)
(* assignment to _needs_warning.                                           *)
(***************************************************************************)
Threads == {1, 2}
MaxCalls == 2

SharedDescriptors ==
    UNION { {Integer("a", nd[1], nd[2], Null, I(0), Null, I(1), Null),
             String("a", nd[1], nd[2], I(1), Null, T(<<"a">>)),
             Boolean("a", nd[1], nd[2])} : nd \in NullableDefaults }

\* a thread outside the method, having made no call
ThreadIdle == [pc |-> "idle", calls |-> 0, done |-> 0, warned |-> 0, val |-> <<>>]

\* faulty variant: the flag is not looked at
AfterFlagTest_Skip(flag) == "build"

\* if self._needs_warning: ... else fall through to the return
AfterFlagTest(flag) == IF flag THEN "warn" ELSE "build"

InitShared ==
    /\ fields = <<>>
    /\ validators = <<>>
    /\ constraints = <<>>
    /\ pc = "idle"
    /\ in_df = NoFrame
    /\ strict = TRUE
    /\ show_violations = FALSE
    /\ fill_nulls = FALSE
    /\ df = NoFrame
    /\ err = NoErr
    /\ violations = <<>>
    /\ log = <<>>
    /\ dsl_pc = "idle"
    /\ dsl_node = Lit(Null)
    /\ dsl_values = <<>>
    /\ polars_result = Null
    /\ python_result = Null
    /\ build_pc = "idle"
    /\ decl = NoDecl
    /\ polars_validator = NotYet
    /\ polars_build = NotYet
    /\ pydantic_build = NotYet
    /\ py_values = <<>>
    /\ py_outcome = NotYet
    /\ fd \in { [FieldBase_init(f) EXCEPT !.named = TRUE] : f \in SharedDescriptors }
    /\ retrievals = <<>>
    /\ thr = [t \in Threads |-> ThreadIdle]

\* thread t calls field.get_polars_constraints()
Enter(t) ==
    /\ thr[t].pc = "idle"
    /\ thr[t].calls < MaxCalls
    /\ thr' = [thr EXCEPT ![t].pc = "check_name", ![t].calls = @ + 1]
    /\ UNCHANGED <<engine_vars, dsl_vars, build_vars, fd, retrievals>>

\* if self.name is None: raise RuntimeError
CheckName(t) ==
    /\ thr[t].pc = "check_name"
    /\ thr' = [thr EXCEPT ![t].pc = IF fd.named THEN "test_flag" ELSE "idle"]
    /\ UNCHANGED <<engine_vars, dsl_vars, build_vars, fd, retrievals>>

\* if self._needs_warning:
TestFlag(t) ==
    /\ thr[t].pc = "test_flag"
    /\ thr' = [thr EXCEPT ![t].pc = AfterFlagTest(fd._needs_warning)]
    /\ UNCHANGED <<engine_vars, dsl_vars, build_vars, fd, retrievals>>

\* warnings.warn(...)
Warn(t) ==
    /\ thr[t].pc = "warn"
    /\ thr' = [thr EXCEPT ![t].pc = "clear", ![t].warned = @ + 1]
    /\ UNCHANGED <<engine_vars, dsl_vars, build_vars, fd, retrievals>>

\* self._needs_warning = False
ClearFlag(t) ==
    /\ thr[t].pc = "clear"
    /\ fd' = [fd EXCEPT !._needs_warning = FALSE]
    /\ thr' = [thr EXCEPT ![t].pc = "build"]
    /\ UNCHANGED <<engine_vars, dsl_vars, build_vars, retrievals>>

\* return [], and the appends and the return of the subclass
ReturnList(t) ==
    /\ thr[t].pc = "build"
    /\ thr' = [thr EXCEPT ![t].pc = "idle", ![t].done = @ + 1,
                          ![t].val = get_polars_constraints(fd.f)]
    /\ UNCHANGED <<engine_vars, dsl_vars, build_vars, fd, retrievals>>

NextShared ==
    \E t \in Threads :
        \/ Enter(t)
        \/ CheckName(t)
        \/ TestFlag(t)
        \/ Warn(t)
        \/ ClearFlag(t)
        \/ ReturnList(t)

SpecShared == InitShared /\ [][NextShared]_vars

(***************************************************************************)
(* Properties of validate.                                                 *)
(***************************************************************************)
Entries == { constraints[i] : i \in 1..Len(constraints) }
FieldSet == { fields[i] : i \in 1..Len(fields) }

\* the frame of the current call after AddDefaults and CoerceTypes
Coerced == CoerceTypes(fields, AddDefaults(fields, in_df).df)
\* ... and what HandleNulls makes of it
AfterNulls == HandleNulls(fields, Coerced, strict, fill_nulls)

\* the call got past CheckRequired and past HandleNulls
PastRequired == pc # "idle" /\ MissingRequired(fields, in_df) = {}
PastNulls == PastRequired /\ AfterNulls.err = NoErr

\* the entry evaluates to false on the row: the row violates it
Violates(e, row, frame) ==
    ~PolarsRaises(e.expr, frame) /\ PolarsEval(e.expr, row) = False3

\* C1: strict validation is all-or-nothing: if a row left after null handling
\* violates an entry the call raises ConstraintViolation, and if none does
\* the call returns every row.
C1_StrictAllOrNothing ==
    (strict /\ pc \in {"Done", "Raised"} /\ PastNulls) =>
        IF \E e \in Entries, r \in Rows(AfterNulls.df) :
               Violates(e, r, AfterNulls.df)
        THEN pc = "Raised" /\ err.kind = "ConstraintViolation"
        ELSE pc = "Done" /\ df = AfterNulls.df

NullFields == { f \in FieldSet : ~f.nullable /\ NullCount(Coerced, f.name) > 0 }
NullRowIds(f) == { r.id : r \in { q \in Rows(Coerced) : IsNull(q.val[f.name]) } }

\* C3: with fill_nulls off, when one non-nullable field holds k > 0 nulls
\* after coercion (no other non-nullable field holds any), a non-strict call
\* drops exactly those k rows in null handling and a strict call raises an
\* error that names the field and k.
C3_NullPolicy ==
    (~fill_nulls /\ PastRequired /\ pc \in {"ApplyConstraints", "Raised"}) =>
        \A f \in FieldSet :
            NullFields = {f} =>
                LET k == NullCount(Coerced, f.name)
                IN IF strict
                   THEN /\ pc = "Raised"
                        /\ err = Err("NonNullableColumnHasNulls", f.name, k, {}, <<>>)
                   ELSE /\ pc = "ApplyConstraints"
                        /\ RowIds(df) = RowIds(Coerced) \ NullRowIds(f)
                        /\ Height(df) = Height(Coerced) - k

C3_Witness ==
    /\ ~fill_nulls /\ ~strict /\ pc = "ApplyConstraints"
    /\ \E f \in FieldSet : NullFields = {f} /\ NullCount(Coerced, f.name) = 1
    /\ Height(Coerced) = 2 /\ Height(df) = 1

Perms(seq) ==
    { [i \in 1..Len(seq) |-> seq[p[i]]] :
        p \in { q \in [1..Len(seq) -> 1..Len(seq)] :
                  \A i, j \in 1..Len(seq) : q[i] = q[j] => i = j } }

\* C4: the result does not depend on the order of the constraint entries:
\* every permutation of the entry list keeps the same rows and has the same
\* raise-or-return outcome.
C4_OrderIndependent ==
    (pc \in {"Done", "Raised"} /\ PastNulls) =>
        \A cs \in Perms(constraints) :
            LET r == ApplyConstraints(cs, AfterNulls.df, strict)
            IN /\ r.err.kind = err.kind
               /\ RowIds(r.df) = RowIds(df)

\* C5: when fields without a default have no column, validate raises
\* MissingRequiredColumns naming all of them, in either mode, before it has
\* added a default, cast, handled a null or evaluated a constraint.
C5_MissingRequired ==
    (pc \notin {"idle", "CheckRequired"}) =>
        LET absent == { f.name : f \in { g \in FieldSet : g.default = MISSING
                                            /\ g.name \notin ColSet(in_df) } }
        IN IF absent # {}
           THEN /\ pc = "Raised"
                /\ err = Err("MissingRequiredColumns", "", 0, absent, <<>>)
                /\ df = in_df
                /\ log = <<>>
                /\ violations = <<>>
           ELSE err.kind # "MissingRequiredColumns"

C5_Witness ==
    /\ pc = "Raised" /\ ~strict
    /\ err.kind = "MissingRequiredColumns" /\ err.names = {"a", "b"}

\* C6: a field with a declared default and no input column has, in the
\* returned frame, a column whose every row is the default, whatever the flags.
C6_DefaultMaterialized ==
    pc = "Done" =>
        \A f \in FieldSet :
            (f.default # MISSING /\ f.name \notin ColSet(in_df)) =>
                /\ f.name \in ColSet(df)
                /\ \A r \in Rows(df) : r.val[f.name] = f.default

C6_Witness ==
    /\ pc = "Done" /\ Height(df) = 2
    /\ \E f \in FieldSet : /\ f.default = I(1) /\ f.name \notin ColSet(in_df)
                            /\ \A r \in Rows(df) : r.val[f.name] = I(1)

DeclaredOrder == [i \in 1..Len(fields) |-> fields[i].name]

\* C8 as stated: whenever validate returns, the columns of the result are
\* exactly the declared fields in declaration order.
C8_ColumnsAreSchema == pc = "Done" => df.cols = DeclaredOrder

\* C8 amended: for a schema that declares at least one field, the columns of
\* the returned frame are exactly the declared fields in declaration order
\* and undeclared input columns are dropped; for a schema with no field the
\* frame is returned with the columns it came with.
C8_ColumnsAreSchemaUnlessEmpty ==
    pc = "Done" =>
        IF fields # <<>>
        THEN df.cols = DeclaredOrder /\ DOMAIN df.dtype = ColSet(df)
             /\ \A r \in Rows(df) : DOMAIN r.val = ColSet(df)
        ELSE df.cols = in_df.cols

C8_Witness ==
    /\ pc = "Done" /\ Len(fields) = 2
    /\ in_df.cols = <<"x", "b", "a">> /\ df.cols = <<"a", "b">>
    /\ Height(df) = 2

\* the value row r holds in column c of the coerced frame
CoercedCell(id, c) == (CHOOSE r \in Rows(Coerced) : r.id = id).val[c]

\* C9: for a field with a default whose column is in the input, once null
\* handling is through a null (after coercion) has been replaced by the
\* default exactly when fill_nulls is on, and is still null when it is off;
\* with fill_nulls on the field is exempt from the nullability check: no
\* error names it and no row is dropped for its null; with fill_nulls off a
\* non-nullable field keeps no null row.
C9_FillNulls ==
    (PastRequired /\ pc \in {"ApplyConstraints", "Raised"}) =>
        \A f \in FieldSet :
            (f.default # MISSING /\ f.name \in ColSet(in_df)) =>
                /\ pc = "ApplyConstraints" =>
                      \A r \in Rows(df) :
                          r.val[f.name] =
                              IF IsNull(CoercedCell(r.id, f.name))
                              THEN IF fill_nulls THEN f.default ELSE Null
                              ELSE CoercedCell(r.id, f.name)
                /\ fill_nulls =>
                      /\ err.field # f.name
                      /\ pc = "ApplyConstraints" =>
                            \A q \in Rows(Coerced) :
                                (\A g \in FieldSet \ {f} :
                                     ~IsNull(q.val[g.name]) \/ g.nullable
                                         \/ g.default # MISSING)
                                    => q.id \in RowIds(df)
                /\ (~fill_nulls /\ ~f.nullable /\ pc = "ApplyConstraints") =>
                      \A r \in Rows(df) : ~IsNull(r.val[f.name])

C9_Witness ==
    /\ pc = "ApplyConstraints" /\ fill_nulls
    /\ \E f \in FieldSet :
          /\ f.default = I(1) /\ ~f.nullable /\ f.name \in ColSet(in_df)
          /\ \E r \in Rows(df) :
                IsNull(CoercedCell(r.id, f.name)) /\ r.val[f.name] = I(1)

\* C10: nulls of a nullable field that no default fills are preserved: a row
\* holding such a null that got through null handling and violates no entry
\* is in the returned frame, still null there, in both modes.
C10_NullsPreserved ==
    pc = "Done" =>
        \A f \in FieldSet :
            (f.nullable /\ ~ShouldFill(f, fill_nulls)) =>
                \A r \in Rows(AfterNulls.df) :
                    (/\ IsNull(r.val[f.name])
                     /\ \A e \in Entries : ~Violates(e, r, AfterNulls.df))
                        => r \in Rows(df)

\* C11: strict validation is idempotent on what it returns: when a strict
\* call has returned R, validating R again with the same arguments returns
\* too, and returns R: same rows, same values, same column order.
C11_StrictIdempotent ==
    (strict /\ pc = "Done") =>
        LET again == validate(fields, constraints, df, TRUE, fill_nulls)
        IN again.err = NoErr /\ again.df = df

C11_Witness ==
    /\ strict /\ pc = "Done" /\ Len(fields) = 2
    /\ in_df.cols = <<"x", "b", "a">> /\ in_df.dtype["a"] = "str"
    /\ Height(df) = 2 /\ df # in_df
    /\ validate(fields, constraints, df, TRUE, fill_nulls).df = df

\* the entries whose predicate raises on the frame the constraint loop works
\* on (its columns and dtypes do not change in the loop), and the others
Unevaluable == { i \in 1..Len(constraints) :
                   PolarsRaises(constraints[i].expr, AfterNulls.df) }
Evaluable == SelectSeq(constraints,
                       LAMBDA e : ~PolarsRaises(e.expr, AfterNulls.df))

\* C12: an entry whose predicate raises on the working frame is skipped with
\* a warning, in both modes: the call ends as it would with only the other
\* entries (same outcome, same frame, same summaries), so the entry neither
\* fails the call nor changes the frame nor stops a later entry, and the
\* log holds a "could not evaluate" warning for it.
C12_UnevaluableSkipped ==
    (pc \in {"Done", "Raised"} /\ PastNulls /\ Unevaluable # {}) =>
        LET r == ApplyConstraints(Evaluable, AfterNulls.df, strict)
        IN /\ err = r.err
           /\ df = r.df
           /\ violations = r.violations
           /\ \A i \in Unevaluable :
                 \E j \in 1..Len(log) :
                     log[j] = LogEntry("could not evaluate", constraints[i].msg, 0)

C12_Witness ==
    /\ ~strict /\ pc = "Done" /\ Len(constraints) = 2
    /\ Unevaluable = {1}
    /\ violations # <<>> /\ Height(in_df) = 2 /\ Height(df) = 1

RECURSIVE SumCounts(_)
\* the sum of the counts of a list of violation summaries
SumCounts(vs) == IF vs = <<>> THEN 0 ELSE Head(vs).count + SumCounts(Tail(vs))

\* C13: a non-strict call drops no row silently: the counts of the violation
\* summaries it recorded add up to the number of input rows that are missing
\* from the result.
C13_DropsAccounted ==
    (~strict /\ pc = "Done") =>
        SumCounts(violations) = Height(in_df) - Height(df)

\* the input frame cut down to its i-th row
OneRow(frame, i) == [frame EXCEPT !.rows = <<frame.rows[i]>>]

\* C22: in non-strict mode a row of the input is in the result exactly when
\* the call on the one-row frame holding that row alone, with the same
\* flags, returns it.
C22_RowIndependent ==
    (~strict /\ pc = "Done") =>
        \A i \in 1..Len(in_df.rows) :
            LET alone == validate(fields, constraints, OneRow(in_df, i),
                                  FALSE, fill_nulls)
            IN (in_df.rows[i].id \in RowIds(df))
               <=> (alone.err = NoErr /\ Height(alone.df) = 1)

\* C23: whenever validate returns, whatever the flags and the declared
\* defaults, the column of a field that is not nullable holds no null.
C23_NoNullInNonNullable ==
    pc = "Done" =>
        \A i \in 1..Len(fields) :
            (~fields[i].nullable /\ fields[i].name \in ColSet(df))
                => NullCount(df, fields[i].name) = 0

\* the messages of the entries a field declares, in the order of its bounds
FieldMessages(f) ==
    (IF f.gt # Null THEN << <<f.name, "must be >", f.gt.v>> >> ELSE <<>>)
    \o (IF f.ge # Null THEN << <<f.name, "must be >=", f.ge.v>> >> ELSE <<>>)
    \o (IF f.lt # Null THEN << <<f.name, "must be <", f.lt.v>> >> ELSE <<>>)
    \o (IF f.le # Null THEN << <<f.name, "must be <=", f.le.v>> >> ELSE <<>>)

\* the message a validator declares, or the generic one
ValidatorMessage(v) ==
    IF v.result.k = "tuple" THEN v.result.items[2] ELSE <<"Validation failed">>

RECURSIVE MessagesInOrder(_, _)
\* the messages of the fields in declaration order, then of the validators
MessagesInOrder(fs, vs) ==
    IF fs # <<>> THEN FieldMessages(Head(fs)) \o MessagesInOrder(Tail(fs), vs)
    ELSE IF vs # <<>> THEN <<ValidatorMessage(Head(vs))>>
                           \o MessagesInOrder(fs, Tail(vs))
    ELSE <<>>

\* C25: in every state, before, during and after any number of calls,
\* describe_constraints() lists the messages of the field entries, field
\* by field in declaration order, and then those of the validators in
\* declaration order; the entries are evaluated in that order, so that the
\* violation summaries of a call follow it.
C25_FixedOrder ==
    /\ describe_constraints(constraints) = MessagesInOrder(fields, validators)
    /\ \A i \in 1..Len(violations), j \in 1..Len(violations) :
          i < j => \E p \in 1..Len(constraints), q \in 1..Len(constraints) :
                      /\ p < q
                      /\ constraints[p].msg = violations[i].constraint
                      /\ constraints[q].msg = violations[j].constraint

C25_Witness ==
    /\ pc = "Done"
    /\ Len(fields) = 2 /\ Len(validators) = 1 /\ Len(constraints) = 3
    /\ Len(violations) >= 2

\* C30: validate keeps no state: whatever calls came before, when a call
\* returns or raises, the validator still holds the constraint list a
\* fresh build of the schema gives, and the outcome of the call is the one
\* a freshly built validator gives for the same frame and flags.  (Finish
\* leads back to the state after the build, so every call but the first
\* starts from the state an earlier call left.)
C30_NoStateAcrossCalls ==
    pc \in {"Done", "Raised"} =>
        LET fresh == _build_constraints(fields, validators)
            r == validate(fields, fresh, in_df, strict, fill_nulls)
        IN /\ constraints = fresh
           /\ err = r.err
           /\ pc = "Done" => df = r.df

C30_Witness ==
    /\ pc = "Done" /\ ~strict /\ fill_nulls
    /\ Len(constraints) = 3 /\ Len(violations) >= 1
    /\ Height(df) = 1

(***************************************************************************)
(* Properties of the DSL backends.                                         *)
(***************************************************************************)

\* C7: for every DSL expression and every record, null values included,
\* the Polars evaluation on the one-row frame and the Python evaluation on
\* the record give the same value.
C7_BackendsAgree ==
    dsl_pc = "both" => polars_result = python_result

\* the backends agree wherever no operand is null and nothing divides by 0
DslAgreeOnValues ==
    (dsl_pc = "both"
     /\ \A n \in DOMAIN dsl_values : ~IsNull(dsl_values[n])
     /\ ~(dsl_node.k = "bin" /\ dsl_node.op = "/" /\ dsl_node.r = Col("b")
          /\ dsl_values.b = I(0))
     /\ ~(dsl_node.k = "member" /\ dsl_node.op = "is_between"
          /\ BoundNone \in {dsl_node.arg[1], dsl_node.arg[2]})
     /\ ~(dsl_node.k = "member" /\ dsl_node.op = "is_in"
          /\ dsl_node.arg.k # "list"))
        => polars_result = python_result

\* C14: a UnaryOp other than is_null and is_not_null applied to a null
\* operand yields null in both backends and raises in neither.
C14_UnaryNullPropagates ==
    (/\ dsl_pc = "both"
     /\ dsl_node.k = "un"
     /\ dsl_node.op \notin {"is_null", "is_not_null"}
     /\ IsNull(to_python(dsl_node.x, dsl_values)))
        => polars_result = Null /\ python_result = Null

\* what a bound of is_between stands for on a record: a str names a field
BoundOn(bound, values) ==
    CASE bound.k = "none" -> Null
      [] bound.k = "str" -> values[bound.name]
      [] bound.k = "val" -> bound.val
      [] bound.k = "col" -> values[bound.name]

\* C19: is_between(lower, upper, closed) with a valid closed is null when
\* the value or a bound is null, and otherwise true exactly when the value
\* is above the lower bound (or equal to it when closed is both or left)
\* and below the upper bound (or equal to it when closed is both or right);
\* a string bound stands for the field of that name; the Python and the
\* Polars evaluation both give this result.
C19_IsBetween ==
    (/\ dsl_pc = "both"
     /\ dsl_node.k = "member" /\ dsl_node.op = "is_between"
     /\ dsl_node.closed \in VALID_CLOSED) =>
        LET value == dsl_values[dsl_node.x.name]
            lower == BoundOn(dsl_node.arg[1], dsl_values)
            upper == BoundOn(dsl_node.arg[2], dsl_values)
            expected ==
                IF IsNull(value) \/ IsNull(lower) \/ IsNull(upper) THEN Null
                ELSE B(/\ \/ value.v > lower.v
                          \/ (value.v = lower.v
                              /\ dsl_node.closed \in {"both", "left"})
                       /\ \/ value.v < upper.v
                          \/ (value.v = upper.v
                              /\ dsl_node.closed \in {"both", "right"}))
        IN python_result = expected /\ polars_result = expected

\* C20: is_in(collection, nulls_equal) in Python is, for a null operand,
\* null when nulls_equal is false and otherwise whether the collection
\* holds a null, and for any other operand whether the collection holds the
\* value; the Polars predicate is true, so that a filter keeps the row,
\* exactly when that result is true.
C20_IsIn ==
    (/\ dsl_pc = "both" /\ dsl_node.k = "member" /\ dsl_node.op = "is_in"
     /\ dsl_node.arg.k = "list") =>
        LET value == dsl_values[dsl_node.x.name]
            holds(x) == \E i \in 1..Len(dsl_node.arg.items) :
                          dsl_node.arg.items[i] = x
            expected ==
                IF IsNull(value)
                THEN (IF dsl_node.nulls_equal THEN B(holds(Null)) ELSE Null)
                ELSE B(holds(value))
        IN /\ python_result = expected
           /\ (polars_result = True3) <=> (expected = True3)

C20_Witness ==
    /\ dsl_pc = "both"
    /\ dsl_node = MembershipOp("is_in", Col("a"), List(<<Null, I(1)>>), TRUE, "both")
    /\ dsl_values.a = Null
    /\ python_result = True3 /\ polars_result = True3

\* C28: the Python evaluation of a & b and of a | b evaluates both operands
\* first: an error of either operand is the outcome, also when the left
\* value alone decides; otherwise the outcome is the left value "and" /
\* "or" the right value, so that with a null left value a & b is null and
\* a | b is the right value.
C28_EagerLogic ==
    (dsl_pc \in {"python", "both"} /\ dsl_node.k = "bin"
     /\ dsl_node.op \in LogicOps) =>
        LET a == to_python(dsl_node.l, dsl_values)
            b == to_python(dsl_node.r, dsl_values)
        IN IF a = Raised \/ b = Raised THEN python_result = Raised
           ELSE /\ python_result =
                     IF dsl_node.op = "&" THEN (IF Truthy(a) THEN b ELSE a)
                     ELSE (IF Truthy(a) THEN a ELSE b)
                /\ IsNull(a) => python_result = IF dsl_node.op = "&" THEN Null
                                                ELSE b

\* the left value decides and the right operand fails
C28_Witness ==
    /\ dsl_pc = "both"
    /\ dsl_node = Bin("&", Col("p"), Bin(">", Col("a"), Lit(I(0))))
    /\ dsl_values.p = False3 /\ dsl_values.a = Null
    /\ python_result = Raised

\* the expression misuses the DSL: an is_between with an unknown closed, an
\* is_in whose argument is no collection, a time component of a date
Misuse(node) ==
    \/ node.k = "member" /\ node.op = "is_between" /\ node.closed \notin VALID_CLOSED
    \/ node.k = "member" /\ node.op = "is_in" /\ node.arg.k # "list"
    \/ node.k = "dt" /\ node.op \in TimeComponents /\ node.x.val.t = "date"

\* C29: an expression that misuses the DSL raises in the Polars backend
\* and in the Python backend, and yields a value in neither.
C29_MisuseIsFatal ==
    (dsl_pc = "both" /\ Misuse(dsl_node)) =>
        polars_result = Raised /\ python_result = Raised

(***************************************************************************)
(* Properties of the builds.                                               *)
(***************************************************************************)

\* a 2-tuple whose first item is an expression (DSL or Polars)
IsExprTuple(r) ==
    /\ r.k = "tuple"
    /\ Len(r.items) = 2
    /\ IsDslNode(r.items[1]) \/ r.items[1].k = "plexpr"

\* C15: normalization of a validator result is total and follows one
\* priority: a dict without the "polars" key raises MissingVectorizedKey and
\* a dict with it yields the tuple stored there, or the stored predicate
\* with "Validation failed"; otherwise a 2-tuple (expression, message)
\* yields (compiled expression, message); otherwise a bare DSL expression
\* yields (compiled expression, "Validation failed"); anything else raises
\* InvalidValidatorResult.
C15_NormalizationPriority ==
    polars_validator # NotYet =>
        LET r == decl.result
            out == polars_validator
        IN CASE r.k = "dict" ->
                  IF "polars" \in DOMAIN r.d
                  THEN out = Returns(IF r.d["polars"].k = "tuple"
                                     THEN r.d["polars"]
                                     ELSE Tuple(<<r.d["polars"],
                                                  <<"Validation failed">>>>))
                  ELSE out.raised = "MissingVectorizedKey"
             [] r.k # "dict" /\ IsExprTuple(r) ->
                  out = Returns(Tuple(<<IF IsDslNode(r.items[1])
                                        THEN PlExpr(r.items[1])
                                        ELSE r.items[1],
                                        r.items[2]>>))
             [] r.k # "dict" /\ ~IsExprTuple(r) /\ IsDslNode(r) ->
                  out = Returns(Tuple(<<PlExpr(r), <<"Validation failed">>>>))
             [] OTHER -> out.raised = "InvalidValidatorResult"

C15_Witness ==
    /\ polars_validator # NotYet
    /\ decl.result.k = "dict" /\ DOMAIN decl.result.d = {"polars"}
    /\ polars_validator = Returns(Tuple(<<PlExpr(Agt0), <<"Validation failed">>>>))

\* C16: the callable the row model gets from a DSL validator returns the
\* record it was given when the scalar value of the expression is truthy,
\* and otherwise (falsy value, or the evaluation raised) raises an error
\* whose message begins with the declared message of the tuple form, or
\* with "Validation failed" for a bare expression.
C16_ScalarCallable ==
    build_pc = "called" =>
        LET v == pydantic_build.validators_to_add[1]
            result == to_python(v.expr, py_values)
            declared == IF decl.result.k = "tuple" THEN decl.result.items[2]
                        ELSE <<"Validation failed">>
        IN IF result # Raised /\ Truthy(result)
           THEN py_outcome.raised = "none" /\ py_outcome.val = py_values
           ELSE /\ py_outcome.raised = "ValueError"
                /\ Len(py_outcome.msg) >= Len(declared)
                /\ SubSeq(py_outcome.msg, 1, Len(declared)) = declared

C16_Witness ==
    /\ build_pc = "called"
    /\ decl.result = Tuple(<<Agt0, SomeMsg>>)
    /\ py_values.a = I(0)
    /\ py_outcome.raised = "ValueError" /\ py_outcome.msg = SomeMsg

\* a declaration that is malformed: a dict without the "polars" key, or a
\* value that is neither a dict, an (expression, message) pair nor a DSL
\* expression
Malformed(r) ==
    IF r.k = "dict" THEN "polars" \notin DOMAIN r.d
    ELSE ~IsExprTuple(r) /\ ~IsDslNode(r)

\* C17: a malformed validator declaration fails both builds.
C17_MalformedIsFatal ==
    (polars_build # NotYet /\ pydantic_build # NotYet /\ Malformed(decl.result)) =>
        polars_build.raised # "none" /\ pydantic_build.raised # "none"

\* C18: a validator function without parameters that returns a DSL
\* expression, bare or with a message, is accepted by both builds: each
\* calls it once, raises nothing and attaches its predicate.
C18_ZeroArgAccepted ==
    (/\ polars_build # NotYet /\ pydantic_build # NotYet
     /\ decl.params = 0
     /\ IsDslNode(decl.result)
          \/ (IsExprTuple(decl.result) /\ IsDslNode(decl.result.items[1]))) =>
        /\ polars_build.raised = "none" /\ polars_build.calls = 1
        /\ Len(polars_build.constraints) = 1
        /\ pydantic_build.raised = "none" /\ pydantic_build.calls = 1
        /\ Len(pydantic_build.validators_to_add) = 1

\* pl.DataFrame([values]) with Int64 columns
FrameOfRecord(values) ==
    Frame(Restrict(InputOrder, DOMAIN values),
          [c \in DOMAIN values |-> "int"],
          <<[id |-> 1, val |-> values]>>)

\* C24: when the predicate of a DSL validator is null on a record, the
\* validator built from the declaration keeps the row of the one-row frame
\* of that record exactly when the validator of the row model, built from
\* the same declaration, accepts the record.
C24_NullVerdictsAgree ==
    (/\ build_pc = "called"
     /\ polars_build # NotYet /\ polars_build.raised = "none"
     /\ Len(polars_build.constraints) = 1
     /\ polars_build.constraints[1].expr.e.k = "bin"
     /\ to_polars(polars_build.constraints[1].expr.e, py_values) = Null) =>
        LET bulk == validate(<<>>, polars_build.constraints,
                             FrameOfRecord(py_values), FALSE, FALSE)
        IN (bulk.err = NoErr /\ Height(bulk.df) = 1)
           <=> (py_outcome.raised = "none")

(***************************************************************************)
(* Properties of the field descriptors.                                    *)
(***************************************************************************)

\* the bounds a field of a kind can declare, in the order of the entries
BoundOrder(kind) ==
    CASE kind = "Integer" -> <<"gt", "ge", "lt", "le", "multiple_of">>
      [] kind \in {"Float", "Datetime"} -> <<"gt", "ge", "lt", "le">>
      [] kind = "String" -> <<"min_length", "max_length", "pattern">>
      [] OTHER -> <<>>

DeclaredBounds(f) == SelectSeq(BoundOrder(f.kind), LAMBDA b : f[b] # Null)

\* the values a column of a kind can hold, null among them
ValuesOfKind(kind) ==
    {Null} \cup
    CASE kind = "Float" -> {F4(-4), F4(0), F4(2), F4(4), F4(6)}
      [] kind = "String" -> {T(<<>>), T(<<"a">>), T(<<"b">>), T(<<"b", "a">>)}
      [] OTHER -> {I(-1), I(0), I(1), I(2), I(3)}

\* the value v, not null, satisfies the bound b = n
Satisfies(b, n, v) ==
    CASE b = "gt" -> v.v > n.v
      [] b = "ge" -> v.v >= n.v
      [] b = "lt" -> v.v < n.v
      [] b = "le" -> v.v <= n.v
      [] b = "multiple_of" -> n.v # 0 /\ \E k \in -3..3 : v.v = k * n.v
      [] b = "min_length" -> Len(v.s) >= n.v
      [] b = "max_length" -> Len(v.s) <= n.v
      [] b = "pattern" -> Contains(v.s, n.s)

\* C21: the list a successful retrieval returns has one entry per declared
\* bound and no other, in the order gt, ge, lt, le, multiple_of (Integer;
\* Float and Datetime without multiple_of) or min_length, max_length,
\* pattern (String), and is empty for Boolean and Date; the predicate of
\* each entry is true exactly on the values that are not null and satisfy
\* its bound, a bound of 0 included.
C21_OneEntryPerBound ==
    \A j \in 1..Len(retrievals) :
        retrievals[j].raised = "none" =>
            LET val == retrievals[j].val
                declared == DeclaredBounds(fd.f)
            IN /\ Len(val) = Len(declared)
               /\ \A i \in 1..Len(declared) :
                     /\ val[i].msg[1] = fd.f.name
                     /\ \A v \in ValuesOfKind(fd.f.kind) :
                           (to_polars(val[i].expr.e, [c \in {fd.f.name} |-> v]) = True3)
                           <=> (~IsNull(v)
                                /\ Satisfies(declared[i], fd.f[declared[i]], v))

C21_Witness ==
    /\ Len(retrievals) >= 1
    /\ retrievals[Len(retrievals)].raised = "none"
    /\ fd.f.kind = "Integer"
    /\ DeclaredBounds(fd.f) = <<"gt", "ge", "lt", "le", "multiple_of">>
    /\ fd.f.ge = I(0)
    /\ Len(retrievals[Len(retrievals)].val) = 5

\* C26: over the retrievals on one descriptor, one after the other, a
\* retrieval emits the nullable-with-default warning exactly when it
\* succeeds, the field is nullable and has a default, and no earlier
\* retrieval succeeded: a retrieval that fails on the unset name emits
\* nothing and leaves the warning to the first one that succeeds.
C26_WarnOnce ==
    \A j \in 1..Len(retrievals) :
        retrievals[j].warned <=>
            /\ retrievals[j].raised = "none"
            /\ fd.f.nullable /\ fd.f.default # MISSING
            /\ \A i \in 1..(j - 1) : retrievals[i].raised # "none"

C26_Witness ==
    /\ Len(retrievals) = 3
    /\ retrievals[1].raised = "RuntimeError" /\ ~retrievals[1].warned
    /\ retrievals[2].raised = "none" /\ retrievals[2].warned
    /\ retrievals[3].raised = "none" /\ ~retrievals[3].warned

RECURSIVE SumWarned(_)
\* the warnings emitted by the threads of a set
SumWarned(ts) ==
    IF ts = {} THEN 0
    ELSE LET t == CHOOSE x \in ts : TRUE
         IN thr[t].warned + SumWarned(ts \ {t})

\* C27: under every interleaving of the retrievals of the threads on one
\* shared descriptor, a step changes nothing of the descriptor but
\* _needs_warning, and that only from set to cleared; every call that has
\* returned got the list of the declaration; each thread has emitted the
\* warning at most once; and once a call has returned on a field that is
\* nullable with a default, the warning has been emitted at least once
\* (never for any other field).
C27_SharedDescriptor ==
    /\ [](/\ \A t \in DOMAIN thr :
               /\ thr[t].warned <= 1
               /\ thr[t].done > 0 => thr[t].val = get_polars_constraints(fd.f)
          /\ (\E t \in DOMAIN thr : thr[t].done > 0)
               => (SumWarned(DOMAIN thr) >= 1
                   <=> (fd.f.nullable /\ fd.f.default # MISSING))
          /\ ~(fd.f.nullable /\ fd.f.default # MISSING)
               => SumWarned(DOMAIN thr) = 0)
    /\ [][/\ fd'.f = fd.f
          /\ fd'.named = fd.named
          /\ fd'._needs_warning => fd._needs_warning]_vars

\* both threads have emitted the warning: the duplicate
C27_Witness ==
    /\ DOMAIN thr = Threads
    /\ thr[1].warned = 1 /\ thr[2].warned = 1
    /\ thr[1].done >= 1 /\ thr[2].done >= 1
    /\ ~fd._needs_warning

====
